---- MODULE Spec2Model ----
(***************************************************************************)
(* A model of trainers/dam.py: the structured-attention builder            *)
(* (TopoPromptLearner), prompt assembly (PromptLearner), the prompted text *)
(* encoder (TextEncoder), the alignment modules and the composite forward  *)
(* pass (CustomCLIP), and the freezing loop of DAM.build_model.            *)
(*                                                                         *)
(* Tensors are modelled by their shape and, where a claim is about their    *)
(* content, by their entries as nested rows.                               *)
(***************************************************************************)
EXTENDS Integers, Naturals, Sequences, FiniteSets, TLC

VARIABLES
    \* ---- one pass of the loop body of TopoPromptLearner.__init__ ----
    m_pc,        \* position in the loop body
    m_nset,      \* self.n_set
    m_cls,       \* classname
    m_topo,      \* topos[id]
    m_tokens,    \* tokens = clip.tokenize(txt, truncate=True)[0]
    m_e2e,       \* e2e relationships: list of [span, span]
    m_e2a,       \* e2a relationships
    m_attn_e2e,  \* attn_e2e
    m_attn_e2a   \* attn_e2a

VARIABLES
    \* ---- TopoPromptLearner: construction, then forward calls ----
    t_pc,         \* "init" while __init__ loops, then "idle"/"called1"/"called2"
    t_ncls,       \* len(classnames)
    t_nset,       \* self.n_set
    t_ci,         \* index of the class the __init__ loop is at
    t_id,         \* structure id the __init__ loop is at
    t_attns_e2e,  \* self.attns_e2e: classname -> list of count matrices
    t_attns_e2a,  \* self.attns_e2a
    t_e2e_scal,   \* self.e2e_scal, one scalar per layer
    t_e2a_scal,   \* self.e2a_scal
    t_attns,      \* what the last forward() returned
    t_attns2      \* what the forward() before it returned

varsT == <<t_pc, t_ncls, t_nset, t_ci, t_id, t_attns_e2e, t_attns_e2a,
           t_e2e_scal, t_e2a_scal, t_attns, t_attns2>>

VARIABLES
    \* ---- CustomCLIP.forward ----
    f_pc,         \* position in forward: "start", "prompt", "text", "align", ...
    f_training,   \* self.training
    f_ncls,       \* number of classes
    f_nset,       \* cfg.TRAINER.DAM.N_SET
    f_B,          \* batch size
    f_XD,         \* cfg.XD
    f_CD,         \* cfg.CD
    f_e2e_scal,   \* topo_prompt_learner.e2e_scal
    f_e2a_scal,   \* topo_prompt_learner.e2a_scal
    f_attns,      \* attns returned by topo_prompt_learner()
    f_ids,        \* the (name, id) of every prompt appended, in order
    f_prompts,    \* prompts, the rendered texts
    f_attn,       \* attn, the stacked attention biases
    f_p_ins,      \* shape of p_ins
    f_text,       \* text_features as returned by the text encoder
    f_text_mean,  \* text_features after the mean over structures (evaluation)
    f_image,      \* shape of image_features after alignment
    f_textn,      \* shape of text_features after alignment
    f_logits,     \* shape of logits
    f_ret         \* what forward returned: [logits |-> shape, loss |-> BOOLEAN]

varsF == <<f_pc, f_training, f_ncls, f_nset, f_B, f_XD, f_CD, f_e2e_scal, f_e2a_scal,
           f_attns, f_ids, f_prompts, f_attn, f_p_ins, f_text, f_text_mean,
           f_image, f_textn, f_logits, f_ret>>

varsM == <<m_pc, m_nset, m_cls, m_topo, m_tokens, m_e2e, m_e2a, m_attn_e2e, m_attn_e2a>>

VARIABLES
    \* ---- CrossModalAlignment.get_rc_dist_ItoT / get_rc_dist_TtoI ----
    c_pc,      \* "start", "loop" inside the chunk loop, "done"
    c_dir,     \* "ItoT" or "TtoI": which of the two functions runs
    c_XD,      \* self.cfg.XD: the chunked branch
    c_B,       \* number of images
    c_N,       \* number of classes
    c_chunk,   \* chunk_size
    c_i,       \* i of the chunk loop
    c_A,       \* A, computed before the branch in get_rc_dist_ItoT
    c_lam,     \* lam
    c_dist     \* dist

VARIABLES
    c_left,    \* the values of range(0, N, chunk_size) the loop has yet to take
    c_log,     \* the class indices written into dist so far, as they were written
    c_grad     \* the inputs that the autograd graph of dist reaches

varsC == <<c_pc, c_dir, c_XD, c_B, c_N, c_chunk, c_i, c_A, c_lam, c_dist,
           c_left, c_log, c_grad>>

VARIABLES
    \* ---- CustomCLIP.__init__ and the freezing loop of DAM.build_model ----
    z_pc,       \* "loaded", "freezing", "built", "loop", "ready"
    z_loaded,   \* requires_grad of the parameters of clip_model as loaded
    z_grad,     \* requires_grad of every parameter that exists
    z_todo,     \* what is left of the iteration a loop is in
    z_enabled   \* enabled, the names collected by the double check

varsZ == <<z_pc, z_loaded, z_grad, z_todo, z_enabled>>

VARIABLES
    \* ---- VisionPromptLearner.forward, then VisionEncoder.forward ----
    v_pc,       \* "start", "prompted", "loop", "done", "raised"
    v_B,        \* len(x), the batch of images
    v_np,       \* number of patch tokens of one image
    v_nvpro,    \* self.n_vpro
    v_ver,      \* how many optimizer steps the parameters have taken
    v_heap,     \* the storages that exist, by name, and what they hold
    v_x,        \* name of the storage behind the running sequence x
    v_layer,    \* layer_idx of the next iteration of the loop
    v_fed,      \* v_fed[i+1]: the sequence that layer i was called with
    v_out       \* v_out[i+1]: what layer i returned

varsV == <<v_pc, v_B, v_np, v_nvpro, v_ver, v_heap, v_x, v_layer, v_fed, v_out>>

VARIABLES
    \* ---- PromptLearner.forward (lines 276-293), then TextEncoder.forward ----
    e_pc,       \* "start", "prompted", "loop", "done", "raised"
    e_flag,     \* flag: True when training
    e_C,        \* n_cls
    e_nset,     \* self.n_set
    e_nsuf,     \* tokens of a prompt after the placeholders
    e_ver,      \* how many optimizer steps the parameters have taken
    e_pori,     \* p_ori, then x: e_pori[pos+1][k+1] once permuted
    e_pins,     \* p_ins as returned by the prompt learner, then as permuted
    e_layer,    \* layer_idx of the next iteration of the loop
    e_fed,      \* e_fed[i+1]: the sequence that layer i was called with
    e_bias,     \* e_bias[i+1]: the attention bias that layer i was called with
    e_out       \* e_out[i+1]: what layer i returned

varsE == <<e_pc, e_flag, e_C, e_nset, e_nsuf, e_ver, e_pori, e_pins, e_layer,
           e_fed, e_bias, e_out>>

VARIABLES
    \* ---- one call of TopoPromptLearner.align ----
    a_pc,       \* "start", then "done"
    a_seq1,     \* seq1, the tokens searched
    a_seq2,     \* seq2, the tokens looked for
    a_ret       \* what align returned, as list() makes it

varsA == <<a_pc, a_seq1, a_seq2, a_ret>>

VARIABLES
    \* ---- two calls of SameModalAlignment.forward ----
    s_pc,       \* "start", "called1", "called2"
    s_batch1,   \* the pairs of features of the first call, by their ids
    s_batch2,   \* the pairs of features of the second call
    s_W1,       \* W of the first call, one matrix per batch element
    s_W2        \* W of the second call

varsS == <<s_pc, s_batch1, s_batch2, s_W1, s_W2>>

varsOld == <<varsM, varsT, varsF, varsC, varsZ>>
varsNew == <<varsV, varsE, varsA, varsS>>
vars == <<varsOld, varsNew>>

\* the parts of the state a specification does not use stay idle
othersM == <<varsT, varsF, varsC, varsZ, varsNew>>
othersT == <<varsM, varsF, varsC, varsZ, varsNew>>
othersF == <<varsM, varsT, varsC, varsZ, varsNew>>
othersC == <<varsM, varsT, varsF, varsZ, varsNew>>
othersZ == <<varsM, varsT, varsF, varsC, varsNew>>
othersV == <<varsOld, varsE, varsA, varsS>>
othersE == <<varsOld, varsV, varsA, varsS>>
othersA == <<varsOld, varsV, varsE, varsS>>
othersS == <<varsOld, varsV, varsE, varsA>>
IdleC ==
    /\ c_pc = "off" /\ c_dir = "" /\ c_XD = FALSE /\ c_B = 0 /\ c_N = 0
    /\ c_chunk = 0 /\ c_i = 0 /\ c_A = <<>> /\ c_lam = <<>> /\ c_dist = <<>>
    /\ c_left = {} /\ c_log = <<>> /\ c_grad = {}

IdleZ ==
    /\ z_pc = "off" /\ z_loaded = <<>> /\ z_grad = <<>>
    /\ z_todo = <<>> /\ z_enabled = {}

IdleM ==
    /\ m_pc = "off" /\ m_nset = 0 /\ m_cls = <<>> /\ m_topo = <<>>
    /\ m_tokens = <<>> /\ m_e2e = <<>> /\ m_e2a = <<>>
    /\ m_attn_e2e = <<>> /\ m_attn_e2a = <<>>

IdleF ==
    /\ f_pc = "off" /\ f_training = FALSE /\ f_ncls = 0 /\ f_nset = 0 /\ f_B = 0
    /\ f_XD = FALSE /\ f_CD = FALSE /\ f_e2e_scal = <<>> /\ f_e2a_scal = <<>>
    /\ f_attns = <<>> /\ f_ids = <<>> /\ f_prompts = <<>> /\ f_attn = <<>>
    /\ f_p_ins = <<>> /\ f_text = <<>> /\ f_text_mean = <<>>
    /\ f_image = <<>> /\ f_textn = <<>> /\ f_logits = <<>> /\ f_ret = <<>>

IdleT ==
    /\ t_pc = "off" /\ t_ncls = 0 /\ t_nset = 0 /\ t_ci = 0 /\ t_id = 0
    /\ t_attns_e2e = <<>> /\ t_attns_e2a = <<>>
    /\ t_e2e_scal = <<>> /\ t_e2a_scal = <<>>
    /\ t_attns = <<>> /\ t_attns2 = <<>>

IdleV ==
    /\ v_pc = "off" /\ v_B = 0 /\ v_np = 0 /\ v_nvpro = 0 /\ v_ver = 0
    /\ v_heap = <<>> /\ v_x = <<>> /\ v_layer = 0 /\ v_fed = <<>> /\ v_out = <<>>

IdleE ==
    /\ e_pc = "off" /\ e_flag = FALSE /\ e_C = 0 /\ e_nset = 0 /\ e_nsuf = 0
    /\ e_ver = 0 /\ e_pori = <<>> /\ e_pins = <<>> /\ e_layer = 0
    /\ e_fed = <<>> /\ e_bias = <<>> /\ e_out = <<>>

IdleOld == IdleM /\ IdleT /\ IdleF /\ IdleC /\ IdleZ
IdleA == a_pc = "off" /\ a_seq1 = <<>> /\ a_seq2 = <<>> /\ a_ret = <<>>

IdleS ==
    /\ s_pc = "off" /\ s_batch1 = <<>> /\ s_batch2 = <<>>
    /\ s_W1 = <<>> /\ s_W2 = <<>>

IdleNew == IdleV /\ IdleE /\ IdleA /\ IdleS

(***************************************************************************)
(* Bounds of the model.                                                    *)
(***************************************************************************)
CtxLen == 10     \* context length of the tokenizer (77 in CLIP)
MaxRel == 2      \* longest relationship list of one structure
NTpro == 1       \* cfg.TRAINER.DAM.N_TPRO
NumLayers == 2   \* len(clip_model.transformer.resblocks) (12 in CLIP)
MaxCls == 2      \* most classes of a dataset
MaxNSet == 2     \* largest cfg.TRAINER.DAM.N_SET besides the one of the paper
MaxB == 2        \* largest batch of images
CtxDim == 2      \* width of the text transformer (ln_final.weight.shape[0])
EmbedDim == 2    \* width of the joint embedding (text_projection.shape[1])
MaxN == 4        \* most classes given to the cross-modal distance
MaxChunk == 3    \* largest chunk_size given to the cross-modal distance

(***************************************************************************)
(* Token ids.  As in CLIP's vocabulary the end-of-text token is the        *)
(* largest id, the start-of-text token the next largest, and 0 is padding. *)
(***************************************************************************)
PAD == 0
TokX == 4
TokComma == 5
TokDot == 6
SOT == 7
EOT == 8

\* A word of a string: its tokens and whether it is written with capitals.
Word(c, t) == [cap |-> c, toks |-> t]

\* str.lower()
lower(w) == [w EXCEPT !.cap = FALSE]

lowerAll(ws) == [i \in 1..Len(ws) |-> lower(ws[i])]

RECURSIVE Concat(_)
Concat(ss) == IF ss = <<>> THEN <<>> ELSE Head(ss) \o Concat(Tail(ss))

\* ", ".join(words) as a string (a sequence of words)
RECURSIVE join(_)
join(ws) ==
    IF ws = <<>> THEN <<>>
    ELSE IF Len(ws) = 1 THEN <<ws[1]>>
    ELSE <<ws[1], Word(FALSE, <<TokComma>>)>> \o join(Tail(ws))

\* clip.tokenize(txt, truncate=True)[0]: SOT, the tokens of the words
\* (lower-cased by the tokenizer), EOT; cut to the context length with EOT
\* forced into the last place, else zero-padded.
tokenize(txt) ==
    LET raw == <<SOT>> \o Concat([i \in 1..Len(txt) |-> txt[i].toks]) \o <<EOT>>
    IN  IF Len(raw) > CtxLen
        THEN [i \in 1..CtxLen |-> IF i = CtxLen THEN EOT ELSE raw[i]]
        ELSE [i \in 1..CtxLen |-> IF i <= Len(raw) THEN raw[i] ELSE PAD]

\* torch.argmax of a 1-D tensor, as a 0-based index (first maximum)
argmax(arr) ==
    CHOOSE i \in 0..(Len(arr) - 1) :
        /\ \A j \in 0..(Len(arr) - 1) : arr[j + 1] <= arr[i + 1]
        /\ \A j \in 0..(i - 1) : arr[j + 1] < arr[i + 1]

\* Python slice seq[lo:hi] of a sequence, 0-based, clipped to the sequence
slice(seq, lo, hi) ==
    LET h == IF hi > Len(seq) THEN Len(seq) ELSE hi
    IN  IF lo >= h THEN <<>> ELSE [i \in 1..(h - lo) |-> seq[lo + i]]

\* list(range(lo, hi))
range(lo, hi) == IF hi <= lo THEN <<>> ELSE [i \in 1..(hi - lo) |-> lo + i - 1]

\* TopoPromptLearner.generate_text
generate_text(classname, prefix, topo) ==
    LET entities == lowerAll(topo.Entities)
        attributes == lowerAll(topo.Attributes)
        dot == <<Word(FALSE, <<TokDot>>)>>
    IN  prefix \o <<classname>> \o dot \o join(entities) \o dot
            \o join(attributes) \o dot

\* " ".join(["X"] * n)
prompt_prefix(n) == [i \in 1..n |-> Word(FALSE, <<TokX>>)]

\* TopoPromptLearner.truncate: array[:, 1:argmax(array)] of a 1 x n array
truncate(array) == slice(array, 1, argmax(array))

\* TopoPromptLearner.align, the index of the first match searched upward
RECURSIVE alignFrom(_, _, _)
alignFrom(seq1, seq2, idx) ==
    IF idx >= Len(seq1) - Len(seq2) + 1 THEN <<>>
    ELSE IF slice(seq1, idx, idx + Len(seq2)) = seq2
         THEN range(idx, idx + Len(seq2))
         ELSE alignFrom(seq1, seq2, idx + 1)

\* align as it would be with a "not found" index of -1 in place of []
align_notfound(seq1, seq2) ==
    IF alignFrom(seq1, seq2, 0) = <<>> /\ seq2 # <<>>
    THEN <<Len(seq1) - 1>>
    ELSE alignFrom(seq1, seq2, 0)

\* align as it would be searching downward: the last match
align_last(seq1, seq2) ==
    LET M == {i \in 0..(Len(seq1) - Len(seq2)) :
                 slice(seq1, i, i + Len(seq2)) = seq2}
    IN  IF M = {} THEN <<>>
        ELSE LET i == CHOOSE m \in M : \A n \in M : n <= m
             IN  range(i, i + Len(seq2))

align(seq1, seq2) == alignFrom(seq1, seq2, 0)

InSeq(x, s) == \E i \in 1..Len(s) : s[i] = x

\* One loop of TopoPromptLearner.extract_relationships over a relationship
\* list whose records name two words (f1 in names1, f2 in names2).
RECURSIVE extract_list(_, _, _, _)
extract_list(tokens, ws, names1, names2) ==
    IF ws = <<>> THEN <<>>
    ELSE LET w == Head(ws)
             rest == extract_list(tokens, Tail(ws), names1, names2)
         IN  IF InSeq(lower(w[1]), names1) /\ InSeq(lower(w[2]), names2)
             THEN <<<<align(tokens, truncate(tokenize(<<w[1]>>))),
                      align(tokens, truncate(tokenize(<<w[2]>>)))>>>> \o rest
             ELSE rest

\* TopoPromptLearner.extract_relationships: <<e2e, e2a>>
extract_relationships(tokens, topo) ==
    LET entities == lowerAll(topo.Entities)
        attributes == lowerAll(topo.Attributes)
    IN  <<extract_list(tokens, topo.E2E, entities, entities),
          extract_list(tokens, topo.E2A, entities, attributes)>>

Positions == 0..(CtxLen - 1)

\* torch.zeros(n_tokens, n_tokens): rows of entries, entry (r, c) at [r+1][c+1]
zeros == [r \in 1..CtxLen |-> [c \in 1..CtxLen |-> 0]]

\* attn[r, c] with 0-based indices
At2(attn, r, c) == attn[r + 1][c + 1]

\* attn[d1, d2] = 1: the entries overwritten instead of incremented
index_set(attn, rows, cols) ==
    [r \in 1..CtxLen |-> [c \in 1..CtxLen |->
        IF InSeq(r - 1, rows) /\ InSeq(c - 1, cols) THEN 1 ELSE attn[r][c]]]

\* attn[d1, d2] += 1 with d1 the column of rows and d2 the row of columns:
\* every indexed entry is read, incremented and written back once.
index_add(attn, rows, cols) ==
    [r \in 1..CtxLen |-> [c \in 1..CtxLen |->
        IF InSeq(r - 1, rows) /\ InSeq(c - 1, cols) THEN attn[r][c] + 1 ELSE attn[r][c]]]

\* the loop body with the second statement (line 371) left out
relation_add_oneway(attn, e) == index_add(attn, e[1], e[2])

\* the body of the loop of create_attention_matrix
relation_add(attn, e) == index_add(index_add(attn, e[1], e[2]), e[2], e[1])

\* TopoPromptLearner.create_attention_matrix (tokens fix the size)
RECURSIVE create_from(_, _)
create_from(attn, relationships) ==
    IF relationships = <<>> THEN attn
    ELSE create_from(relation_add(attn, Head(relationships)), Tail(relationships))

create_attention_matrix(relationships) == create_from(zeros, relationships)

(***************************************************************************)
(* SpecMatrix: one pass of the loop body of TopoPromptLearner.__init__     *)
(* (lines 319-331) on one structure drawn from a bounded set of inputs.    *)
(***************************************************************************)
Wa == Word(FALSE, <<1>>)
WA == Word(TRUE, <<1>>)
Wb == Word(FALSE, <<2>>)
Wab == Word(FALSE, <<1, 2>>)
Wc == Word(FALSE, <<3>>)

EntityLists == {<<Wa>>, <<WA, Wb>>, <<Wb, Wab, Wa>>}
AttributeLists == {<<Wb>>, <<Wab, Wb>>}
E2EPairs == {<<Wa, Wb>>, <<Wab, Wa>>, <<Wb, Wab>>, <<Wa, Wa>>, <<Wb, Wa>>}
E2ALists == {<<<<Wab, Wb>>>>, <<<<Wa, Wab>>, <<Wa, Wb>>>>}
ClassWords == {Wb, Wc}

SeqsUpTo(S, n) == UNION {[1..k -> S] : k \in 0..n}

Topos ==
    [Entities : EntityLists, Attributes : AttributeLists,
     E2E : SeqsUpTo(E2EPairs, MaxRel), E2A : E2ALists]

InitM ==
    /\ m_pc = "text"
    /\ m_nset \in {1, 2}
    /\ m_cls \in ClassWords
    /\ m_topo \in Topos
    /\ m_tokens = <<>>
    /\ m_e2e = <<>>
    /\ m_e2a = <<>>
    /\ m_attn_e2e = zeros
    /\ m_attn_e2a = zeros

\* lines 319-320
MTokenize ==
    /\ UNCHANGED othersM
    /\ m_pc = "text"
    /\ m_tokens' = tokenize(generate_text(m_cls, prompt_prefix(NTpro + m_nset), m_topo))
    /\ m_pc' = "extract"
    /\ UNCHANGED <<m_nset, m_cls, m_topo, m_e2e, m_e2a, m_attn_e2e, m_attn_e2a>>

\* line 323
MExtract ==
    /\ UNCHANGED othersM
    /\ m_pc = "extract"
    /\ m_e2e' = extract_relationships(m_tokens, m_topo)[1]
    /\ m_e2a' = extract_relationships(m_tokens, m_topo)[2]
    /\ m_pc' = "create"
    /\ UNCHANGED <<m_nset, m_cls, m_topo, m_tokens, m_attn_e2e, m_attn_e2a>>

\* lines 326-327
MCreate ==
    /\ UNCHANGED othersM
    /\ m_pc = "create"
    /\ m_attn_e2e' = create_attention_matrix(m_e2e)
    /\ m_attn_e2a' = create_attention_matrix(m_e2a)
    /\ m_pc' = "done"
    /\ UNCHANGED <<m_nset, m_cls, m_topo, m_tokens, m_e2e, m_e2a>>

NextM == MTokenize \/ MExtract \/ MCreate

InitMatrix == InitM /\ IdleT /\ IdleF /\ IdleC /\ IdleZ /\ IdleNew

SpecMatrix == InitMatrix /\ [][NextM]_vars

(***************************************************************************)
(* Claims about create_attention_matrix, checked under SpecMatrix.         *)
(***************************************************************************)
InSpan(x, span) == InSeq(x, span)

Ind(b) == IF b THEN 1 ELSE 0

\* the number of relationships (A, B) of the list with r in A and c in B,
\* plus the number with r in B and c in A
RECURSIVE RelCount(_, _, _)
RelCount(rels, r, c) ==
    IF rels = <<>> THEN 0
    ELSE Ind(InSpan(r, Head(rels)[1]) /\ InSpan(c, Head(rels)[2]))
         + Ind(InSpan(r, Head(rels)[2]) /\ InSpan(c, Head(rels)[1]))
         + RelCount(Tail(rels), r, c)

\* C3: the matrix returned by create_attention_matrix is symmetric, for the
\* entity-entity and for the entity-attribute relationships.
C3_Symmetric ==
    m_pc = "done" =>
        \A a \in Positions, b \in Positions :
            /\ At2(m_attn_e2e, a, b) = At2(m_attn_e2e, b, a)
            /\ At2(m_attn_e2a, a, b) = At2(m_attn_e2a, b, a)

\* a relationship between two different non-empty spans was counted
C3_Witness ==
    /\ m_pc = "done"
    /\ \E i \in 1..Len(m_e2e) :
          /\ m_e2e[i][1] # <<>> /\ m_e2e[i][2] # <<>>
          /\ m_e2e[i][1] # m_e2e[i][2]
          /\ Len(m_e2e[i][1]) # Len(m_e2e[i][2])
    /\ \E a \in Positions, b \in Positions : a # b /\ At2(m_attn_e2e, a, b) > 0

\* C4: every entry is the number of relationships touching that token pair
\* (both directions), each list counted in its own matrix.
C4_Accumulate ==
    m_pc = "done" =>
        \A r \in Positions, c \in Positions :
            /\ At2(m_attn_e2e, r, c) = RelCount(m_e2e, r, c)
            /\ At2(m_attn_e2a, r, c) = RelCount(m_e2a, r, c)

\* two relationships touch the same token pair, and the two matrices differ
C4_Witness ==
    /\ m_pc = "done"
    /\ Len(m_e2e) = 2
    /\ \E r \in Positions, c \in Positions :
          /\ RelCount(<<m_e2e[1]>>, r, c) = 1
          /\ RelCount(<<m_e2e[2]>>, r, c) = 1
          /\ At2(m_attn_e2e, r, c) = 2
    /\ m_attn_e2a # m_attn_e2e
    /\ m_attn_e2a # zeros

\* the word occurs as a contiguous run of the tokens
Matches(tokens, w) ==
    \E idx \in 0..(Len(tokens) - Len(w.toks)) :
        \A k \in 1..Len(w.toks) : tokens[idx + k] = w.toks[k]

\* the relationship records whose two words both occur in the tokens
RECURSIVE MatchedOnly(_, _)
MatchedOnly(tokens, ws) ==
    IF ws = <<>> THEN <<>>
    ELSE IF Matches(tokens, Head(ws)[1]) /\ Matches(tokens, Head(ws)[2])
         THEN <<Head(ws)>> \o MatchedOnly(tokens, Tail(ws))
         ELSE MatchedOnly(tokens, Tail(ws))

\* C5: relationships naming a word with no match in the tokens change no
\* entry: the matrices are those of the structure without them.
C5_UnmatchedIgnored ==
    m_pc = "done" =>
        LET topo == [m_topo EXCEPT !.E2E = MatchedOnly(m_tokens, m_topo.E2E),
                                   !.E2A = MatchedOnly(m_tokens, m_topo.E2A)]
            rels == extract_relationships(m_tokens, topo)
        IN  /\ m_attn_e2e = create_attention_matrix(rels[1])
            /\ m_attn_e2a = create_attention_matrix(rels[2])

\* an unmatched relationship was followed by a matched one that was counted
C5_Witness ==
    /\ m_pc = "done"
    /\ Len(m_e2e) = 2
    /\ m_e2e[1][1] = <<>> \/ m_e2e[1][2] = <<>>
    /\ m_e2e[2][1] # <<>> /\ m_e2e[2][2] # <<>>
    /\ m_attn_e2e # zeros

(***************************************************************************)
(* Tensors: a shape and the entries as nested rows; the entry at the       *)
(* 0-based index (i, j, ...) is data[i+1][j+1]...                          *)
(***************************************************************************)
\* t[idx] for a full 0-based index tuple
RECURSIVE get(_, _)
get(data, idx) == IF idx = <<>> THEN data ELSE get(data[idx[1] + 1], Tail(idx))

Max2(a, b) == IF a >= b THEN a ELSE b

\* a shape padded with leading 1s to n dimensions
padShape(shape, n) ==
    [k \in 1..n |-> IF k <= n - Len(shape) THEN 1 ELSE shape[k - (n - Len(shape))]]

\* the shape two operands broadcast to (the operands here always agree)
bshape(s1, s2) ==
    LET n == Max2(Len(s1), Len(s2))
    IN  [k \in 1..n |-> Max2(padShape(s1, n)[k], padShape(s2, n)[k])]

\* the entries of an elementwise a * b ("mul") or a + b ("add") with
\* broadcasting: an operand of fewer dimensions, or of size 1 on a dimension,
\* is repeated along it
RECURSIVE bdata(_, _, _, _, _)
bdata(op, a, sa, b, sb) ==
    IF sa = <<>> /\ sb = <<>> THEN (IF op = "mul" THEN a * b ELSE a + b)
    ELSE LET n == Max2(Len(sa), Len(sb))
             size == bshape(sa, sb)[1]
             suba(i) == IF Len(sa) < n THEN a ELSE a[IF sa[1] = 1 THEN 1 ELSE i]
             subb(i) == IF Len(sb) < n THEN b ELSE b[IF sb[1] = 1 THEN 1 ELSE i]
             ra == IF Len(sa) < n THEN sa ELSE Tail(sa)
             rb == IF Len(sb) < n THEN sb ELSE Tail(sb)
         IN  [i \in 1..size |-> bdata(op, suba(i), ra, subb(i), rb)]

\* a * b, elementwise with broadcasting
t_mul(a, b) ==
    [shape |-> bshape(a.shape, b.shape),
     data |-> bdata("mul", a.data, a.shape, b.data, b.shape)]

\* a + b, elementwise with broadcasting
t_add(a, b) ==
    [shape |-> bshape(a.shape, b.shape),
     data |-> bdata("add", a.data, a.shape, b.data, b.shape)]

\* torch.stack(list of S x S matrices): shape (len, S, S)
t_stack(ms) == [shape |-> <<Len(ms), CtxLen, CtxLen>>, data |-> ms]

\* a parameter of shape (layers, 1, 1, 1) holding one scalar per layer
scal_param(v) ==
    [shape |-> <<NumLayers, 1, 1, 1>>,
     data |-> [l \in 1..NumLayers |-> <<<<<<v[l - 1]>>>>>>]]

\* t[:, i]: the entries with index i on dimension 1 (of at least 2)
select1(t, i) ==
    [shape |-> <<t.shape[1]>> \o SubSeq(t.shape, 3, Len(t.shape)),
     data |-> [k \in 1..t.shape[1] |-> t.data[k][i + 1]]]

(***************************************************************************)
(* The dataset: class names and the structure file (text_topos).           *)
(***************************************************************************)
\* a class name: a word whose blanks may be written as underscores
ClassName(t, u) == [cap |-> FALSE, toks |-> t, us |-> u]

\* name.replace("_", " ")
replace_us(name) == [name EXCEPT !.us = FALSE]

\* self.dm.dataset.classnames
DatasetClasses ==
    <<ClassName(<<2>>, FALSE), ClassName(<<3, 1>>, TRUE), ClassName(<<3>>, FALSE),
      ClassName(<<1>>, FALSE)>>

\* line 602: classnames = [name.replace("_", " ") for name in classnames]
classnames(n_cls) == [i \in 1..n_cls |-> replace_us(DatasetClasses[i])]

Struct(ents, attrs, e2e, e2a) ==
    [Entities |-> ents, Attributes |-> attrs, E2E |-> e2e, E2A |-> e2a]

\* the structures of the structure file
StructList ==
    <<Struct(<<Wa>>, <<Wb>>, <<<<Wa, Wa>>>>, <<<<Wa, Wb>>>>),
      Struct(<<WA, Wb>>, <<Wab>>, <<<<Wa, Wb>>, <<Wb, Wa>>>>, <<<<Wb, Wab>>>>),
      Struct(<<Wab, Wa>>, <<Wb>>, <<<<Wab, Wa>>>>, <<<<Wab, Wb>>, <<Wa, Wb>>>>),
      Struct(<<Wb>>, <<Wa>>, <<<<Wb, Wb>>>>, <<<<Wb, Wa>>>>),
      Struct(<<Wa, Wb>>, <<>>, <<<<Wa, Wb>>>>, <<>>)>>

ClassIndex(name) ==
    CHOOSE i \in 1..Len(DatasetClasses) : replace_us(DatasetClasses[i]) = name

\* text_topos[name][id], the file being keyed by the names written with blanks
text_topos(name, id) ==
    StructList[((2 * (ClassIndex(name) - 1) + id) % Len(StructList)) + 1]

NameSet(names) == {names[i] : i \in 1..Len(names)}

(***************************************************************************)
(* SpecTopo: TopoPromptLearner.__init__ followed by forward() calls, with  *)
(* optimizer steps on the two scalars between them.                        *)
(***************************************************************************)
Layers == 0..(NumLayers - 1)

ScalVals == {-1, 2}

\* TopoPromptLearner.forward with the two scalars exchanged
topo_forward_swapped(names, attns_e2e, attns_e2a, e2e_scal, e2a_scal) ==
    [name \in {replace_us(n) : n \in NameSet(names)} |->
        t_add(t_mul(scal_param(e2a_scal), t_stack(attns_e2e[name])),
              t_mul(scal_param(e2e_scal), t_stack(attns_e2a[name])))]

\* TopoPromptLearner.forward
topo_forward(names, attns_e2e, attns_e2a, e2e_scal, e2a_scal) ==
    [name \in {replace_us(n) : n \in NameSet(names)} |->
        t_add(t_mul(scal_param(e2e_scal), t_stack(attns_e2e[name])),
              t_mul(scal_param(e2a_scal), t_stack(attns_e2a[name])))]

\* lines 319-327 for one (classname, id): <<attn_e2e, attn_e2a>>
build_pair(classname, n_set, id) ==
    LET topo == text_topos(classname, id)
        tokens == tokenize(generate_text(classname, prompt_prefix(NTpro + n_set), topo))
        rels == extract_relationships(tokens, topo)
    IN  <<create_attention_matrix(rels[1]), create_attention_matrix(rels[2])>>

NoResult == <<>>

InitT ==
    /\ t_pc = "init"
    /\ t_ncls \in 1..MaxCls
    /\ t_nset \in 1..MaxNSet
    /\ t_ci = 1
    /\ t_id = 0
    /\ t_attns_e2e = [name \in NameSet(classnames(t_ncls)) |-> <<>>]
    /\ t_attns_e2a = [name \in NameSet(classnames(t_ncls)) |-> <<>>]
    /\ t_e2e_scal = [l \in Layers |-> 0]
    /\ t_e2a_scal = [l \in Layers |-> 0]
    /\ t_attns = NoResult
    /\ t_attns2 = NoResult

\* one pass of the loop body of __init__, lines 317-331
TInitStep ==
    /\ UNCHANGED othersT
    /\ t_pc = "init"
    /\ LET name == classnames(t_ncls)[t_ci]
           pair == build_pair(name, t_nset, t_id)
           last_id == (t_id = t_nset - 1)
       IN  /\ t_attns_e2e' = [t_attns_e2e EXCEPT ![name] = Append(@, pair[1])]
           /\ t_attns_e2a' = [t_attns_e2a EXCEPT ![name] = Append(@, pair[2])]
           /\ t_id' = IF last_id THEN 0 ELSE t_id + 1
           /\ t_ci' = IF last_id THEN t_ci + 1 ELSE t_ci
           /\ t_pc' = IF last_id /\ t_ci = t_ncls THEN "idle" ELSE "init"
    /\ UNCHANGED <<t_ncls, t_nset, t_e2e_scal, t_e2a_scal, t_attns, t_attns2>>

\* forward() that scales the cached matrices in place before combining them
TopoForward_inplace ==
    /\ UNCHANGED othersT
    /\ t_pc \in {"idle", "called1"}
    /\ LET scaled(cache, scal) ==
               [name \in DOMAIN cache |->
                   [k \in 1..Len(cache[name]) |->
                       [r \in 1..CtxLen |-> [c \in 1..CtxLen |->
                           scal[0] * cache[name][k][r][c]]]]]
       IN  /\ t_attns_e2e' = scaled(t_attns_e2e, t_e2e_scal)
           /\ t_attns_e2a' = scaled(t_attns_e2a, t_e2a_scal)
    /\ t_attns' = topo_forward(classnames(t_ncls), t_attns_e2e', t_attns_e2a',
                                [l \in Layers |-> 1], [l \in Layers |-> 1])
    /\ t_attns2' = t_attns
    /\ t_pc' = IF t_pc = "idle" THEN "called1" ELSE "called2"
    /\ UNCHANGED <<t_ncls, t_nset, t_ci, t_id, t_e2e_scal, t_e2a_scal>>

\* a call of TopoPromptLearner.forward (the first or the second in a row)
TopoForward ==
    /\ UNCHANGED othersT
    /\ t_pc \in {"idle", "called1"}
    /\ t_attns' = topo_forward(classnames(t_ncls), t_attns_e2e, t_attns_e2a,
                                t_e2e_scal, t_e2a_scal)
    /\ t_attns2' = t_attns
    /\ t_pc' = IF t_pc = "idle" THEN "called1" ELSE "called2"
    /\ UNCHANGED <<t_ncls, t_nset, t_ci, t_id, t_attns_e2e, t_attns_e2a,
                   t_e2e_scal, t_e2a_scal>>

\* the optimizer updates the scalars between forward passes; the results of
\* the passes before it are dropped
TOptimStep ==
    /\ UNCHANGED othersT
    /\ t_pc \in {"idle", "called1", "called2"}
    /\ t_e2e_scal' \in [Layers -> ScalVals]
    /\ t_e2a_scal' \in [Layers -> ScalVals]
    /\ t_attns' = NoResult
    /\ t_attns2' = NoResult
    /\ t_pc' = "idle"
    /\ UNCHANGED <<t_ncls, t_nset, t_ci, t_id, t_attns_e2e, t_attns_e2a>>

NextT == TInitStep \/ TopoForward \/ TOptimStep

InitTopo == InitT /\ IdleM /\ IdleF /\ IdleC /\ IdleZ /\ IdleNew

SpecTopo == InitTopo /\ [][NextT]_vars

(***************************************************************************)
(* Claims about TopoPromptLearner.forward, checked under SpecTopo.         *)
(***************************************************************************)
\* the count matrices __init__ builds for a class
BuiltE2E(name, n_set) == [k \in 1..n_set |-> build_pair(name, n_set, k - 1)[1]]
BuiltE2A(name, n_set) == [k \in 1..n_set |-> build_pair(name, n_set, k - 1)[2]]

TCalled == t_pc \in {"called1", "called2"}

\* C6 as stated: the returned matrix is indexed [structure, layer, row, col].
C6_StructureFirst ==
    TCalled =>
        \A name \in NameSet(classnames(t_ncls)) :
            /\ t_attns[name].shape = <<t_nset, NumLayers, CtxLen, CtxLen>>
            /\ \A s \in 0..(t_nset - 1), l \in Layers, r \in Positions, c \in Positions :
                  get(t_attns[name].data, <<s, l, r, c>>) =
                      t_e2e_scal[l] * At2(t_attns_e2e[name][s + 1], r, c)
                      + t_e2a_scal[l] * At2(t_attns_e2a[name][s + 1], r, c)

\* C6 (amended): forward returns for every class a matrix indexed
\* [layer, structure, row, col], of shape layers x n_set x seq_len x seq_len,
\* with entry e2e_scal[l] * e2e_count[s] + e2a_scal[l] * e2a_count[s].
C6_LayerFirst ==
    TCalled =>
        /\ DOMAIN t_attns = NameSet(classnames(t_ncls))
        /\ \A name \in NameSet(classnames(t_ncls)) :
            /\ t_attns[name].shape = <<NumLayers, t_nset, CtxLen, CtxLen>>
            /\ \A l \in Layers, s \in 0..(t_nset - 1), r \in Positions, c \in Positions :
                  get(t_attns[name].data, <<l, s, r, c>>) =
                      t_e2e_scal[l] * At2(t_attns_e2e[name][s + 1], r, c)
                      + t_e2a_scal[l] * At2(t_attns_e2a[name][s + 1], r, c)

\* forward ran with scalars that differ between layers and between the two
\* kinds, on count matrices that differ between structures
C6_Witness ==
    /\ TCalled
    /\ t_nset = 2
    /\ t_e2e_scal[0] # t_e2e_scal[1]
    /\ t_e2e_scal[0] # t_e2a_scal[0]
    /\ \E name \in NameSet(classnames(t_ncls)) :
          /\ t_attns_e2e[name][1] # t_attns_e2e[name][2]
          /\ t_attns_e2a[name][1] # zeros
          /\ t_attns_e2e[name][1] # t_attns_e2a[name][1]
          /\ \E l \in Layers, r \in Positions, c \in Positions :
                get(t_attns[name].data, <<l, 0, r, c>>)
                    # get(t_attns[name].data, <<l, 1, r, c>>)

\* C7: a second forward() with the same scalars returns the same matrices,
\* and after any call the cached count matrices are those __init__ built.
C7_Idempotent ==
    /\ t_pc = "called2" => t_attns = t_attns2
    /\ TCalled =>
          \A name \in NameSet(classnames(t_ncls)) :
              /\ t_attns_e2e[name] = BuiltE2E(name, t_nset)
              /\ t_attns_e2a[name] = BuiltE2A(name, t_nset)

\* forward was called twice in a row with scalars other than 0 and 1 on a
\* cache holding a non-zero matrix
C7_Witness ==
    /\ t_pc = "called2"
    /\ t_e2e_scal[0] = 2
    /\ \E name \in NameSet(classnames(t_ncls)) :
          /\ t_attns_e2e[name][1] # zeros
          /\ \E l \in Layers, r \in Positions, c \in Positions :
                get(t_attns[name].data, <<l, 0, r, c>>) # 0

(***************************************************************************)
(* Shapes: what the tensor operations of the forward pass do to the shape  *)
(* of their operands.  ErrShape stands for the RuntimeError torch raises.  *)
(***************************************************************************)
ErrShape == <<-1>>

IsErr(sh) == sh = ErrShape

RECURSIVE Prod(_)
Prod(sh) == IF sh = <<>> THEN 1 ELSE Head(sh) * Prod(Tail(sh))

Front(sh, n) == SubSeq(sh, 1, n)
Back(sh, n) == SubSeq(sh, Len(sh) - n + 1, Len(sh))

\* the shape of an elementwise operation on two operands
sh_broadcast(a, b) ==
    IF IsErr(a) \/ IsErr(b) THEN ErrShape
    ELSE LET n == Max2(Len(a), Len(b))
             pa == padShape(a, n)
             pb == padShape(b, n)
         IN  IF \A k \in 1..n : pa[k] = pb[k] \/ pa[k] = 1 \/ pb[k] = 1
             THEN [k \in 1..n |-> IF pa[k] = 1 THEN pb[k] ELSE pa[k]]
             ELSE ErrShape

\* torch.matmul of two tensors of at least two dimensions
sh_matmul(a, b) ==
    IF IsErr(a) \/ IsErr(b) \/ Len(a) < 2 \/ Len(b) < 2 THEN ErrShape
    ELSE LET batch == sh_broadcast(Front(a, Len(a) - 2), Front(b, Len(b) - 2))
         IN  IF IsErr(batch) \/ a[Len(a)] # b[Len(b) - 1] THEN ErrShape
             ELSE batch \o <<a[Len(a) - 1], b[Len(b)]>>

\* x.unsqueeze(dim), dim counted from 0
sh_unsqueeze(a, dim) ==
    IF IsErr(a) \/ dim > Len(a) THEN ErrShape
    ELSE Front(a, dim) \o <<1>> \o Back(a, Len(a) - dim)

\* x.squeeze(dim): the dimension is dropped only when its size is 1
sh_squeeze(a, dim) ==
    IF IsErr(a) \/ dim >= Len(a) THEN ErrShape
    ELSE IF a[dim + 1] = 1 THEN Front(a, dim) \o Back(a, Len(a) - dim - 1) ELSE a

\* x.t(): a tensor of two dimensions transposed
sh_t(a) == IF IsErr(a) \/ Len(a) # 2 THEN ErrShape ELSE <<a[2], a[1]>>

\* x.permute(0, 2, 1)
sh_permute021(a) == IF IsErr(a) \/ Len(a) # 3 THEN ErrShape ELSE <<a[1], a[3], a[2]>>

\* a reduction over one dimension (mean, sum, norm without keepdim)
sh_reduce(a, dim) ==
    IF IsErr(a) \/ dim >= Len(a) THEN ErrShape
    ELSE Front(a, dim) \o Back(a, Len(a) - dim - 1)

\* x.inverse(): batches of square matrices
sh_inverse(a) ==
    IF IsErr(a) \/ Len(a) < 2 THEN ErrShape
    ELSE IF a[Len(a)] # a[Len(a) - 1] THEN ErrShape ELSE a

\* x.view(shape) / x.reshape(shape) to a fully given shape
sh_view(a, sh) == IF IsErr(a) \/ Prod(a) # Prod(sh) THEN ErrShape ELSE sh

\* x / x.norm(dim=-1, keepdim=True)
sh_normalize(a) ==
    IF IsErr(a) \/ Len(a) < 1 THEN ErrShape
    ELSE sh_broadcast(a, Front(a, Len(a) - 1) \o <<1>>)

(***************************************************************************)
(* The alignment modules, at the level of shapes.                          *)
(***************************************************************************)
\* SameModalAlignment.forward: the shape of W
sh_SameModalAlignment(source, target) ==
    IF IsErr(source) \/ IsErr(target) \/ Len(source) < 3 THEN ErrShape
    ELSE LET St == sh_permute021(source)
             StS == sh_matmul(St, source)
             M_inv == IF IsErr(StS) THEN ErrShape
                      ELSE sh_inverse(sh_broadcast(StS, <<StS[Len(StS)], StS[Len(StS)]>>))
             W == sh_matmul(sh_matmul(M_inv, St), target)
         IN  IF IsErr(W) THEN ErrShape
             ELSE LET identity == <<source[1], W[2], W[2]>>
                  IN  sh_broadcast(W, sh_broadcast(sh_broadcast(W, identity), <<1>>))

\* text_xd_SameModalAlignment.forward: the shape of W
sh_text_xd_SameModalAlignment(source, target) ==
    IF IsErr(source) \/ IsErr(target) \/ Len(source) < 2 THEN ErrShape
    ELSE LET St == sh_t(source)
             StS == sh_matmul(St, source)
             M_inv == IF IsErr(StS) THEN ErrShape
                      ELSE sh_inverse(sh_broadcast(StS, <<StS[Len(StS)], StS[Len(StS)]>>))
             W == sh_matmul(sh_matmul(M_inv, St), target)
         IN  IF IsErr(W) THEN ErrShape
             ELSE sh_broadcast(W, sh_broadcast(sh_broadcast(W, <<W[1], W[1]>>), <<1>>))

Min2(a, b) == IF a <= b THEN a ELSE b

\* the starts of the chunks that are chunk_size long, leaving out a shorter
\* last one: range(0, N - N % chunk_size, chunk_size)
chunk_starts_whole(N, chunk_size) ==
    {i \in 0..(N - 1) : i % chunk_size = 0 /\ i + chunk_size <= N}

\* range(0, N, chunk_size)
chunk_starts(N, chunk_size) == {i \in 0..(N - 1) : i % chunk_size = 0}

\* CrossModalAlignment.get_rc_dist_ItoT: the shape of dist
sh_get_rc_dist_ItoT(img_f, text_f, XD, chunk_size) ==
    IF IsErr(img_f) \/ IsErr(text_f) \/ Len(img_f) < 3 \/ Len(text_f) < 1 THEN ErrShape
    ELSE
    LET B == img_f[1]
        K == img_f[2]
        N == text_f[1]
        d == img_f[3]
        It == sh_permute021(img_f)
        ItI == sh_matmul(It, img_f)
        M_inv == IF IsErr(ItI) THEN ErrShape
                 ELSE sh_inverse(sh_broadcast(ItI, <<1, ItI[Len(ItI)], ItI[Len(ItI)]>>))
        A == sh_matmul(M_inv, It)
        dist_of(T) ==
            LET W == sh_matmul(sh_unsqueeze(A, 1), sh_unsqueeze(T, 0))
                T_bar == sh_matmul(sh_unsqueeze(img_f, 1), W)
                diff == sh_broadcast(T_bar, sh_unsqueeze(T, 0))
            IN  IF IsErr(diff) THEN ErrShape
                ELSE sh_reduce(sh_view(sh_reduce(diff, Len(diff) - 1), <<B, T_bar[2], K>>), 2)
    IN  IF XD
        THEN IF \A i \in chunk_starts(N, chunk_size) :
                    dist_of(<<Min2(chunk_size, N - i)>> \o Tail(text_f))
                        = <<B, Min2(chunk_size, N - i)>>
             THEN <<B, N>>
             ELSE ErrShape
        ELSE dist_of(text_f)

\* CrossModalAlignment.get_rc_dist_TtoI: the shape of dist
sh_get_rc_dist_TtoI(img_f, text_f, XD, chunk_size) ==
    IF IsErr(img_f) \/ IsErr(text_f) \/ Len(img_f) < 3 \/ Len(text_f) < 3 THEN ErrShape
    ELSE
    LET B == img_f[1]
        K == img_f[2]
        N == text_f[1]
        dist_of(T) ==
            LET Tt == sh_permute021(T)
                TtT == sh_matmul(Tt, T)
                M_inv == IF IsErr(TtT) THEN ErrShape
                         ELSE sh_inverse(sh_broadcast(TtT, <<1, TtT[Len(TtT)], TtT[Len(TtT)]>>))
                A == sh_matmul(M_inv, Tt)
                W == sh_matmul(sh_unsqueeze(A, 1), sh_unsqueeze(img_f, 0))
                I_bar == sh_matmul(sh_unsqueeze(T, 1), W)
                diff == sh_broadcast(I_bar, sh_unsqueeze(img_f, 0))
            IN  IF IsErr(diff) THEN ErrShape
                ELSE sh_t(sh_reduce(sh_view(sh_reduce(diff, Len(diff) - 1),
                                            <<I_bar[1], B, K>>), 2))
    IN  IF XD
        THEN IF \A i \in chunk_starts(N, chunk_size) :
                    sh_t(dist_of(<<Min2(chunk_size, N - i)>> \o Tail(text_f)))
                        = <<Min2(chunk_size, N - i), B>>
             THEN sh_t(<<N, B>>)
             ELSE ErrShape
        ELSE dist_of(text_f)

\* chunk_size = 100 in CrossModalAlignment.forward
ChunkSize == 100

\* CrossModalAlignment.forward: the shape of logits_pre
sh_CrossModalAlignment(rc_dist_i2t, rc_dist_t2i) ==
    sh_broadcast(sh_broadcast(<<1>>, rc_dist_i2t), sh_broadcast(<<1>>, rc_dist_t2i))

(***************************************************************************)
(* More tensor operations: stacking, reshaping, the mean over a dimension. *)
(***************************************************************************)
\* what an operation that raised leaves in place of a tensor
TErr == [shape |-> ErrShape, data |-> <<>>]

\* torch.stack(ts, dim=0) of tensors of one shape
t_stackN(ts) ==
    [shape |-> <<Len(ts)>> \o ts[1].shape, data |-> [k \in 1..Len(ts) |-> ts[k].data]]

\* the entries in row-major order
RECURSIVE Flatten(_, _)
Flatten(data, shape) ==
    IF shape = <<>> THEN <<data>>
    ELSE Concat([i \in 1..shape[1] |-> Flatten(data[i], Tail(shape))])

\* the tensor of a shape whose row-major entries are flat[from+1], ...
RECURSIVE Unflatten(_, _, _)
Unflatten(flat, from, shape) ==
    IF shape = <<>> THEN flat[from + 1]
    ELSE [i \in 1..shape[1] |->
            Unflatten(flat, from + (i - 1) * Prod(Tail(shape)), Tail(shape))]

\* x.reshape(g, h, -1): the last size is inferred from the number of entries
t_reshape_infer(t, g, h) ==
    IF g * h = 0 \/ Prod(t.shape) % (g * h) # 0 THEN TErr
    ELSE LET ns == <<g, h, Prod(t.shape) \div (g * h)>>
         IN  [shape |-> ns, data |-> Unflatten(Flatten(t.data, t.shape), 0, ns)]

\* x.mean(dim=1) of a tensor of three dimensions: every entry is the mean of
\* the listed entries
t_mean1(t) ==
    IF IsErr(t.shape) \/ Len(t.shape) # 3 THEN TErr
    ELSE [shape |-> <<t.shape[1], t.shape[3]>>,
          data |-> [g \in 1..t.shape[1] |-> [j \in 1..t.shape[3] |->
                      [i \in 1..t.shape[2] |-> t.data[g][i][j]]]]]

(***************************************************************************)
(* PromptLearner.forward                                                   *)
(***************************************************************************)
\* random.randint(a, b + 1): one value too many
randint_wide(a, b) == a..(b + 1)

\* random.randint(a, b): any integer from a to b, both included
randint(a, b) == a..b

\* the text p of lines 258 and 266
prompt_text(name, prefix, topo) ==
    LET dot == <<Word(FALSE, <<TokDot>>)>>
    IN  prefix \o <<name>> \o dot \o join(topo.Entities) \o dot
            \o join(topo.Attributes) \o dot

\* the (name, id) the loops of lines 262-264 go through
RECURSIVE eval_pairs(_, _)
eval_pairs(names, n_set) ==
    IF names = <<>> THEN <<>>
    ELSE [i \in 1..n_set |-> <<Head(names), i - 1>>] \o eval_pairs(Tail(names), n_set)

\* lines 257-260 for the (name, id) gone through: prompts and attn
prompt_learner_lists(pairs, n_set, attns) ==
    [prompts |-> [k \in 1..Len(pairs) |->
                    prompt_text(pairs[k][1], prompt_prefix(NTpro + n_set),
                                text_topos(pairs[k][1], pairs[k][2]))],
     attn |-> t_stackN([k \in 1..Len(pairs) |-> select1(attns[pairs[k][1]], pairs[k][2])])]

\* lines 284-291: the shape of p_ins, from feats of shape (l, c, n, d)
sh_p_ins(feats) ==
    IF NumLayers - 1 < 1 THEN ErrShape
    ELSE <<NumLayers - 1>> \o Tail(sh_view(feats, <<feats[1], feats[2] * feats[3], feats[4]>>))

(***************************************************************************)
(* TextEncoder.forward                                                     *)
(***************************************************************************)
\* the literal 5 of line 216
ReshapeGroup == 5

\* lines 178-209: do the shapes fit all the way through the layers
text_layers_ok(n_prompts, n_set, p_ins, attn, flag) ==
    LET r == sh_view(p_ins, <<p_ins[1], p_ins[2] \div n_set, n_set, p_ins[3]>>)
        e == IF IsErr(r) THEN ErrShape
             ELSE IF flag THEN r ELSE <<r[1], r[2] * n_set, n_set, r[4]>>
        n_suffix == Max2(0, CtxLen - (1 + NTpro + n_set))
    IN  /\ ~IsErr(e)
        /\ e[2] = n_prompts
        /\ e[4] = CtxDim
        /\ 1 + NTpro + n_set + n_suffix = CtxLen
        /\ attn = <<n_prompts, NumLayers, CtxLen, CtxLen>>

\* line 213: one feature vector per prompt; entry (k, j) comes from prompt k
text_features_of(n_prompts) ==
    [shape |-> <<n_prompts, EmbedDim>>,
     data |-> [k \in 1..n_prompts |-> [j \in 1..EmbedDim |-> <<k - 1, j - 1>>]]]

\* line 216: x.reshape(x.shape[0]//5, 5, -1)
text_regroup(x, n_set) == t_reshape_infer(x, x.shape[1] \div ReshapeGroup, ReshapeGroup)

\* TextEncoder.forward
text_encoder_forward(n_prompts, n_set, p_ins, attn, flag) ==
    IF ~text_layers_ok(n_prompts, n_set, p_ins, attn, flag) THEN TErr
    ELSE IF flag THEN text_features_of(n_prompts)
         ELSE text_regroup(text_features_of(n_prompts), n_set)

(***************************************************************************)
(* CustomCLIP.forward                                                      *)
(***************************************************************************)
\* torch.nn.CosineSimilarity(dim=1)
sh_cos(a, b) == sh_reduce(sh_broadcast(a, b), 1)

\* F.cross_entropy(logits, label) with B labels below n_cls: may it run
cross_entropy_ok(logits, B, n_cls) ==
    /\ ~IsErr(logits)
    /\ Len(logits) = 2
    /\ logits[1] = B
    /\ logits[2] >= n_cls

\* lines 651-652 and 648: the zero-shot features, B x D and D x N
sh_image_features_zs(B) == <<B, EmbedDim>>
sh_text_features_zs(n_cls) == <<EmbedDim, n_cls>>

\* lines 677-682: text_weight, by the branch of cfg.XD
sh_text_weight(text0, zs_t, XD) ==
    IF XD THEN sh_text_xd_SameModalAlignment(text0, zs_t)
    ELSE sh_SameModalAlignment(sh_unsqueeze(text0, 1), sh_unsqueeze(zs_t, 1))

\* lines 678 and 682: x_b
sh_x_b(text0, text_weight, XD) ==
    IF XD THEN sh_matmul(text0, text_weight)
    ELSE sh_squeeze(sh_matmul(sh_unsqueeze(text0, 1), text_weight), 1)

\* lines 702-712: can the loss be computed
forward_loss_ok(image1, text1, logits, B, n_cls) ==
    /\ ~IsErr(sh_cos(image1, sh_image_features_zs(B)))
    /\ ~IsErr(sh_cos(text1, sh_t(sh_text_features_zs(n_cls))))
    /\ cross_entropy_ok(logits, B, n_cls)

\* the two scalars: as initialised (lines 307-308) and after training
FwdScalars ==
    {<<[l \in Layers |-> 0], [l \in Layers |-> 0]>>,
     <<[l \in Layers |-> l + 1], [l \in Layers |-> -1 - 2 * l]>>}

\* n_set as configured: small values and the 5 of the reference configuration
NSetChoices == (1..MaxNSet) \cup {ReshapeGroup}

InitF ==
    /\ f_pc = "start"
    /\ f_training \in BOOLEAN
    /\ f_ncls \in 1..MaxCls
    /\ f_nset \in NSetChoices
    /\ f_B \in 1..MaxB
    /\ f_XD \in BOOLEAN
    /\ f_CD \in BOOLEAN
    /\ \E sc \in FwdScalars : f_e2e_scal = sc[1] /\ f_e2a_scal = sc[2]
    /\ f_attns = NoResult
    /\ f_ids = <<>>
    /\ f_prompts = <<>>
    /\ f_attn = NoResult
    /\ f_p_ins = <<>>
    /\ f_text = NoResult
    /\ f_text_mean = NoResult
    /\ f_image = <<>>
    /\ f_textn = <<>>
    /\ f_logits = <<>>
    /\ f_ret = NoResult

\* self.topo_prompt_learner's caches after __init__
built_e2e(n_cls, n_set) ==
    [name \in NameSet(classnames(n_cls)) |->
        [k \in 1..n_set |-> build_pair(name, n_set, k - 1)[1]]]

built_e2a(n_cls, n_set) ==
    [name \in NameSet(classnames(n_cls)) |->
        [k \in 1..n_set |-> build_pair(name, n_set, k - 1)[2]]]

\* line 654: attns = self.topo_prompt_learner()
FTopo ==
    /\ UNCHANGED othersF
    /\ f_pc = "start"
    /\ f_attns' = topo_forward(classnames(f_ncls), built_e2e(f_ncls, f_nset),
                                built_e2a(f_ncls, f_nset), f_e2e_scal, f_e2a_scal)
    /\ f_pc' = "prompt"
    /\ UNCHANGED <<f_training, f_ncls, f_nset, f_B, f_XD, f_CD, f_e2e_scal, f_e2a_scal,
                   f_ids, f_prompts, f_attn, f_p_ins, f_text, f_text_mean,
                   f_image, f_textn, f_logits, f_ret>>

\* line 655: PromptLearner.forward(self.text_features_ft, attns, self.training)
FPrompt ==
    /\ UNCHANGED othersF
    /\ f_pc = "prompt"
    /\ \E pick \in (IF f_training THEN [1..f_ncls -> randint(0, f_nset - 1)]
                     ELSE {<<>>}) :
          LET names == [i \in 1..f_ncls |-> replace_us(classnames(f_ncls)[i])]
              pairs == IF f_training
                       THEN [k \in 1..f_ncls |-> <<names[k], pick[k]>>]
                       ELSE eval_pairs(names, f_nset)
              in_range == \A k \in 1..Len(pairs) : pairs[k][2] \in 0..(f_nset - 1)
              lists == prompt_learner_lists(pairs, f_nset, f_attns)
          IN  /\ f_ids' = pairs
              /\ f_prompts' = IF in_range THEN lists.prompts ELSE <<>>
              /\ f_attn' = IF in_range THEN lists.attn ELSE NoResult
              /\ f_p_ins' = IF in_range
                             THEN sh_p_ins(<<NumLayers, f_ncls, f_nset, CtxDim>>)
                             ELSE <<>>
              /\ f_pc' = IF in_range THEN "text" ELSE "raised"
    /\ UNCHANGED <<f_training, f_ncls, f_nset, f_B, f_XD, f_CD, f_e2e_scal, f_e2a_scal,
                   f_attns, f_text, f_text_mean, f_image, f_textn, f_logits, f_ret>>

\* lines 657-664: the text encoder, and the mean over structures
FText ==
    /\ UNCHANGED othersF
    /\ f_pc = "text"
    /\ LET x == text_encoder_forward(Len(f_prompts), f_nset, f_p_ins, f_attn.shape,
                                     f_training)
       IN  /\ f_text' = x
           /\ f_text_mean' = IF f_training THEN NoResult ELSE t_mean1(x)
           /\ f_pc' = IF IsErr(x.shape) THEN "raised" ELSE "align"
    /\ UNCHANGED <<f_training, f_ncls, f_nset, f_B, f_XD, f_CD, f_e2e_scal, f_e2a_scal,
                   f_attns, f_ids, f_prompts, f_attn, f_p_ins, f_image, f_textn,
                   f_logits, f_ret>>

\* lines 666-688: both feature sets aligned within their modality
FAlign ==
    /\ UNCHANGED othersF
    /\ f_pc = "align"
    /\ \E image0 \in {sh_normalize(<<f_B, EmbedDim>>)},
          text0 \in {sh_normalize(IF f_training THEN f_text.shape ELSE f_text_mean.shape)},
          zs_t \in {sh_t(sh_text_features_zs(f_ncls))} :
       \E img_weight \in {sh_SameModalAlignment(sh_unsqueeze(image0, 1),
                                sh_unsqueeze(sh_image_features_zs(f_B), 1))},
          text_weight \in {sh_text_weight(text0, zs_t, f_XD)} :
       \E x_a \in {sh_squeeze(sh_matmul(sh_unsqueeze(image0, 1), img_weight), 1)},
          x_b \in {sh_x_b(text0, text_weight, f_XD)} :
       \E image1 \in {sh_broadcast(x_a, image0)}, text1 \in {sh_broadcast(x_b, text0)} :
       \E ok \in {~IsErr(image1) /\ ~IsErr(text1)} :
           /\ f_image' = IF ok THEN sh_normalize(image1) ELSE <<>>
           /\ f_textn' = IF ok THEN sh_normalize(text1) ELSE <<>>
           /\ f_pc' = IF ok THEN "logits" ELSE "raised"
    /\ UNCHANGED <<f_training, f_ncls, f_nset, f_B, f_XD, f_CD, f_e2e_scal, f_e2a_scal,
                   f_attns, f_ids, f_prompts, f_attn, f_p_ins, f_text, f_text_mean,
                   f_logits, f_ret>>

\* lines 691-699
FLogits ==
    /\ UNCHANGED othersF
    /\ f_pc = "logits"
    /\ \E logits_org \in {sh_matmul(f_image, sh_t(f_textn))},
          img_f \in {sh_unsqueeze(f_image, 1)},
          text_f \in {sh_unsqueeze(f_textn, 1)} :
       \E i2t \in {sh_get_rc_dist_ItoT(img_f, text_f, f_XD, ChunkSize)},
          t2i \in {sh_get_rc_dist_TtoI(img_f, text_f, f_XD, ChunkSize)} :
       \E logits_cma \in {sh_CrossModalAlignment(i2t, t2i)} :
       \E logits0 \in {sh_broadcast(logits_org, logits_cma)},
          logits_i \in {sh_matmul(f_image, sh_text_features_zs(f_ncls))},
          logits_t \in {sh_matmul(sh_image_features_zs(f_B), sh_t(f_textn))} :
       \E logits01 \in {sh_broadcast(logits0, logits_i)} :
       \E logits \in {IF f_CD THEN sh_broadcast(logits01, logits_t) ELSE logits0} :
           /\ f_logits' = IF IsErr(logits) THEN <<>> ELSE logits
           /\ f_pc' = IF IsErr(logits) THEN "raised" ELSE "loss"
    /\ UNCHANGED <<f_training, f_ncls, f_nset, f_B, f_XD, f_CD, f_e2e_scal, f_e2a_scal,
                   f_attns, f_ids, f_prompts, f_attn, f_p_ins, f_text, f_text_mean,
                   f_image, f_textn, f_ret>>

\* lines 702-718: the loss when training, and the return
FReturn ==
    /\ UNCHANGED othersF
    /\ f_pc = "loss"
    /\ LET ok == ~f_training
                 \/ forward_loss_ok(f_image, f_textn, f_logits, f_B, f_ncls)
       IN  /\ f_ret' = IF ok THEN [logits |-> f_logits, loss |-> f_training]
                         ELSE NoResult
           /\ f_pc' = IF ok THEN "done" ELSE "raised"
    /\ UNCHANGED <<f_training, f_ncls, f_nset, f_B, f_XD, f_CD, f_e2e_scal, f_e2a_scal,
                   f_attns, f_ids, f_prompts, f_attn, f_p_ins, f_text, f_text_mean,
                   f_image, f_textn, f_logits>>

\* the caller switches the mode (model.train() / model.eval()) and calls again
FAgain ==
    /\ UNCHANGED othersF
    /\ f_pc \in {"done", "raised"}
    /\ f_training' \in BOOLEAN
    /\ f_pc' = "start"
    /\ f_attns' = NoResult
    /\ f_ids' = <<>>
    /\ f_prompts' = <<>>
    /\ f_attn' = NoResult
    /\ f_p_ins' = <<>>
    /\ f_text' = NoResult
    /\ f_text_mean' = NoResult
    /\ f_image' = <<>>
    /\ f_textn' = <<>>
    /\ f_logits' = <<>>
    /\ f_ret' = NoResult
    /\ UNCHANGED <<f_ncls, f_nset, f_B, f_XD, f_CD, f_e2e_scal, f_e2a_scal>>

NextF == FTopo \/ FPrompt \/ FText \/ FAlign \/ FLogits \/ FReturn \/ FAgain

InitForward == InitF /\ IdleM /\ IdleT /\ IdleC /\ IdleZ /\ IdleNew

SpecForward == InitForward /\ [][NextF]_vars

(***************************************************************************)
(* Claims about the forward pass.                                          *)
(***************************************************************************)
\* PromptLearner.forward has returned or raised in this call
PromptCalled == f_pc \in {"text", "align", "logits", "loss", "done", "raised"}

\* TextEncoder.forward has returned or raised in this call
TextCalled == PromptCalled /\ f_pc # "text" /\ f_prompts # <<>>

\* the bias of one (class, structure index) at one layer, from the count
\* matrices built at construction and the two scalars
BiasOf(pair, l) ==
    [r \in 1..CtxLen |-> [c \in 1..CtxLen |->
        f_e2e_scal[l] * pair[1][r][c] + f_e2a_scal[l] * pair[2][r][c]]]

\* C1: in evaluation mode the text encoder, given C * n_set prompts in blocks
\* of n_set per class, returns C groups of n_set feature vectors, group c
\* holding the features of prompts c*n_set .. c*n_set + n_set - 1, and the
\* mean over the structure axis has C feature vectors.
C1_EvalGroups ==
    (~f_training /\ TextCalled) =>
        /\ f_text.shape = <<f_ncls, f_nset, EmbedDim>>
        /\ \A c \in 0..(f_ncls - 1), i \in 0..(f_nset - 1), j \in 0..(EmbedDim - 1) :
              get(f_text.data, <<c, i, j>>) = <<c * f_nset + i, j>>
        /\ f_text_mean.shape = <<f_ncls, EmbedDim>>

\* the grouping is the claimed one when n_set is the 5 of line 216
C1_GroupsOfFive ==
    (~f_training /\ TextCalled /\ f_nset = ReshapeGroup) =>
        /\ f_text.shape = <<f_ncls, f_nset, EmbedDim>>
        /\ \A c \in 0..(f_ncls - 1), i \in 0..(f_nset - 1), j \in 0..(EmbedDim - 1) :
              get(f_text.data, <<c, i, j>>) = <<c * f_nset + i, j>>
        /\ f_text_mean.shape = <<f_ncls, EmbedDim>>

\* C2: forward returns (logits, loss) in training mode and logits alone in
\* evaluation mode, and in both modes, for every n_set, logits is B x C.
C2_ForwardReturns ==
    f_pc \in {"done", "raised"} =>
        /\ f_pc = "done"
        /\ f_ret.logits = <<f_B, f_ncls>>
        /\ f_ret.loss = f_training

\* in training mode, and in evaluation mode with n_set = 5, forward does so
C2_TrainingReturns ==
    (f_pc \in {"done", "raised"} /\ (f_training \/ f_nset = ReshapeGroup)) =>
        /\ f_pc = "done"
        /\ f_ret.logits = <<f_B, f_ncls>>
        /\ f_ret.loss = f_training

\* C8: PromptLearner.forward never fails on a structure index; when it
\* returns in training mode it has made one prompt and one bias per class,
\* each with a structure index in [0, n_set); in evaluation mode it has made
\* num_classes * n_set of them, class by class with the indices 0..n_set-1
\* inside each class; in both modes the k-th prompt and the k-th bias are
\* those of the k-th (class, index).
C8_PromptsAndBiases ==
    /\ PromptCalled => f_prompts # <<>>
    /\ f_pc = "text" =>
        LET names == classnames(f_ncls)
            n == Len(f_ids)
        IN  /\ Len(f_prompts) = n
            /\ f_attn.shape = <<n, NumLayers, CtxLen, CtxLen>>
            /\ f_training =>
                  /\ n = f_ncls
                  /\ \A k \in 1..n :
                        f_ids[k][1] = names[k] /\ f_ids[k][2] \in 0..(f_nset - 1)
            /\ ~f_training =>
                  /\ n = f_ncls * f_nset
                  /\ \A c \in 0..(f_ncls - 1), i \in 0..(f_nset - 1) :
                        f_ids[c * f_nset + i + 1] = <<names[c + 1], i>>
            /\ \A k \in 1..n :
                  /\ f_prompts[k] = prompt_text(f_ids[k][1], prompt_prefix(NTpro + f_nset),
                                                text_topos(f_ids[k][1], f_ids[k][2]))
                  /\ LET pair == build_pair(f_ids[k][1], f_nset, f_ids[k][2])
                     IN  \A l \in Layers : f_attn.data[k][l + 1] = BiasOf(pair, l)

\* training mode, the most classes: the first class drew the last index and
\* the second the first, and the two biases differ
C8_Witness ==
    /\ f_pc = "text"
    /\ f_training
    /\ f_ncls = MaxCls
    /\ f_nset = MaxNSet
    /\ f_ids[1][2] = f_nset - 1
    /\ f_ids[2][2] = 0
    /\ f_attn.data[1] # f_attn.data[2]
    /\ \E l \in Layers, r \in Positions, c \in Positions :
          get(f_attn.data, <<0, l, r, c>>) # 0

(***************************************************************************)
(* SpecCMA: the cross-modal distance, chunked (cfg.XD) and unchunked.      *)
(* A value is kept as the expression that computes it, so two values are   *)
(* equal exactly when the same operations were applied to the same         *)
(* operands.  img_f is B x K x d and text_f is N x K x d with K = 1; one   *)
(* row of either is one operand.                                           *)
(***************************************************************************)
\* img_f.float() and text_f.float(), row by row
cma_I(B) == [b \in 1..B |-> <<"img_f", b>>]
cma_T(N) == [n \in 1..N |-> <<"text_f", n>>]

permute(x) == <<"permute", x>>
matmul(a, b) == <<"matmul", a, b>>
mul(x, k) == <<"mul", x, k>>

\* reg = X.shape[0] / X.shape[2]
cma_reg(X) == <<"div", Len(X), EmbedDim>>

\* lam = reg * alpha.exp() + 1e-6
cma_lam(reg) == <<"lam", reg>>

\* rho = beta.exp().float()
cma_rho == <<"rho">>

\* (M + torch.eye(...).unsqueeze(0).mul(lam)).inverse(), for one matrix
regularized_inverse(M, lam) == <<"inverse", <<"add", M, <<"eye_mul", lam>>>>>>

\* (x - y).pow(2).sum(dim=-1).neg() ... .mean(dim=-1), for one pair
neg_sq_dist(x, y) == <<"mean", <<"neg", <<"sum", <<"pow2", <<"sub", x, y>>>>>>>>>>

\* torch.zeros((rows, cols))
cma_zeros(rows, cols) == [r \in 1..rows |-> [c \in 1..cols |-> <<"zero">>]]

\* m.t() of a matrix with at least one row
cma_t(m) == [c \in 1..Len(m[1]) |-> [r \in 1..Len(m) |-> m[r][c]]]

\* dist[:, i:i+len] = block
set_cols(dist, i, block) ==
    [b \in 1..Len(dist) |-> [n \in 1..Len(dist[b]) |->
        IF n - 1 >= i /\ n - 1 < i + Len(block[b]) THEN block[b][n - i] ELSE dist[b][n]]]

\* dist[i:i+len] = block
set_rows(dist, i, block) ==
    [n \in 1..Len(dist) |->
        IF n - 1 >= i /\ n - 1 < i + Len(block) THEN block[n - i] ELSE dist[n]]

\* lines 423-427 of get_rc_dist_ItoT: A, one matrix per image
ItoT_A(I, lam) ==
    [b \in 1..Len(I) |->
        matmul(regularized_inverse(matmul(permute(I[b]), I[b]), lam), permute(I[b]))]

\* lines 433-438: dist_chunk, B x len(T_chunk)
ItoT_chunk(I, A, T_chunk, rho) ==
    LET W_chunk == [b \in 1..Len(I) |-> [j \in 1..Len(T_chunk) |-> matmul(A[b], T_chunk[j])]]
        T_bar_chunk == [b \in 1..Len(I) |-> [j \in 1..Len(T_chunk) |->
                           mul(matmul(I[b], W_chunk[b][j]), rho)]]
    IN  [b \in 1..Len(I) |-> [j \in 1..Len(T_chunk) |->
            neg_sq_dist(T_bar_chunk[b][j], T_chunk[j])]]

\* lines 442-448: dist of the unchunked branch, B x N
ItoT_full(I, A, T, rho) ==
    LET W == [b \in 1..Len(I) |-> [n \in 1..Len(T) |-> matmul(A[b], T[n])]]
        T_bar == [b \in 1..Len(I) |-> [n \in 1..Len(T) |-> mul(matmul(I[b], W[b][n]), rho)]]
    IN  [b \in 1..Len(I) |-> [n \in 1..Len(T) |-> neg_sq_dist(T_bar[b][n], T[n])]]

\* lines 487-499: dist of the unchunked branch of get_rc_dist_TtoI, B x N
TtoI_full(I, T, lam, rho) ==
    LET Tt == [n \in 1..Len(T) |-> permute(T[n])]
        TtT == [n \in 1..Len(T) |-> matmul(Tt[n], T[n])]
        M_inv == [n \in 1..Len(T) |-> regularized_inverse(TtT[n], lam)]
        A == [n \in 1..Len(T) |-> matmul(M_inv[n], Tt[n])]
        W == [n \in 1..Len(T) |-> [b \in 1..Len(I) |-> matmul(A[n], I[b])]]
        I_bar == [n \in 1..Len(T) |-> [b \in 1..Len(I) |-> mul(matmul(T[n], W[n][b]), rho)]]
    IN  cma_t([n \in 1..Len(T) |-> [b \in 1..Len(I) |-> neg_sq_dist(I_bar[n][b], I[b])]])

\* the chunk regularised by its own length instead of by lam
TtoI_chunk_own_reg(I, T_chunk, lam, rho) ==
    TtoI_full(I, T_chunk, cma_lam(cma_reg(T_chunk)), rho)

\* lines 466-481: dist_chunk, B x len(T_chunk)
TtoI_chunk(I, T_chunk, lam, rho) ==
    LET Tt == [j \in 1..Len(T_chunk) |-> permute(T_chunk[j])]
        TtT == [j \in 1..Len(T_chunk) |-> matmul(Tt[j], T_chunk[j])]
        M_inv == [j \in 1..Len(T_chunk) |-> regularized_inverse(TtT[j], lam)]
        A == [j \in 1..Len(T_chunk) |-> matmul(M_inv[j], Tt[j])]
        W == [j \in 1..Len(T_chunk) |-> [b \in 1..Len(I) |-> matmul(A[j], I[b])]]
        I_bar == [j \in 1..Len(T_chunk) |-> [b \in 1..Len(I) |->
                     mul(matmul(T_chunk[j], W[j][b]), rho)]]
    IN  cma_t([j \in 1..Len(T_chunk) |-> [b \in 1..Len(I) |->
                  neg_sq_dist(I_bar[j][b], I[b])]])

\* what a result can be differentiated in: what its operands can, and
\* nothing at all when it is computed under torch.no_grad()
grad_of(no_grad, deps) == IF no_grad THEN {} ELSE deps

\* dist[...] = value: outside torch.no_grad() the graph of value joins dist's
grad_setitem(no_grad, dist, value) == IF no_grad THEN dist ELSE dist \cup value

\* the inputs of a training call: features that came through the prompts,
\* lam = reg * alpha.exp() + 1e-6 and rho = beta.exp()
grad_I == {"img_f"}
grad_T == {"text_f"}
grad_lam == {"alpha"}
grad_rho == {"beta"}

\* lines 423-427, outside any no_grad block
ItoT_A_grad == grad_of(FALSE, grad_I \cup grad_lam)

\* lines 431-440: the whole body is inside with torch.no_grad()
ItoT_chunk_grad(dist) ==
    LET T_chunk == grad_of(TRUE, grad_T)
        W_chunk == grad_of(TRUE, ItoT_A_grad \cup T_chunk)
        T_bar_chunk == grad_of(TRUE, grad_I \cup W_chunk \cup grad_rho)
        dist_chunk == grad_of(TRUE, T_bar_chunk \cup T_chunk)
    IN  grad_setitem(TRUE, dist, dist_chunk)

\* lines 465-482: two no_grad blocks, with lines 470 and 480-482 outside
TtoI_chunk_grad(dist) ==
    LET T_chunk == grad_of(TRUE, grad_T)
        Tt == grad_of(TRUE, T_chunk)
        TtT == grad_of(TRUE, Tt \cup T_chunk)
        M_inv == grad_of(FALSE, TtT \cup grad_lam)
        A == grad_of(TRUE, M_inv \cup Tt)
        W == grad_of(TRUE, A \cup grad_I)
        I_bar == grad_of(FALSE, T_chunk \cup W \cup grad_rho)
        dist_chunk == grad_of(FALSE, I_bar \cup grad_I)
    IN  grad_setitem(FALSE, dist, dist_chunk)

\* lines 441-448 and 486-499: no no_grad block anywhere
full_grad(dir) ==
    IF dir = "ItoT"
    THEN grad_of(FALSE, ItoT_A_grad \cup grad_T \cup grad_I \cup grad_rho)
    ELSE grad_of(FALSE, grad_T \cup grad_lam \cup grad_I \cup grad_rho)

\* T[i:i+chunk_size] of the N classes
chunk_of(N, i, chunk_size) == slice(cma_T(N), i, i + chunk_size)

\* lines 440 and 482: dist after the pass of the loop for i
chunk_write(dir, dist, i, I, A, T_chunk, lam) ==
    IF dir = "ItoT"
    THEN set_cols(dist, i, ItoT_chunk(I, A, T_chunk, cma_rho))
    ELSE set_rows(dist, i, cma_t(TtoI_chunk(I, T_chunk, lam, cma_rho)))

InitC ==
    /\ c_pc = "start"
    /\ c_dir \in {"ItoT", "TtoI"}
    /\ c_XD \in BOOLEAN
    /\ c_B \in 1..MaxB
    /\ c_N \in 1..MaxN
    /\ c_chunk \in 1..MaxChunk
    /\ c_i = 0
    /\ c_A = <<>>
    /\ c_lam = <<>>
    /\ c_dist = <<>>
    /\ c_left = {}
    /\ c_log = <<>>
    /\ c_grad = {}

\* lines 414-428 and 453-463: everything before the chunk loop
CStart ==
    /\ UNCHANGED othersC
    /\ c_pc = "start"
    /\ c_lam' = cma_lam(cma_reg(IF c_dir = "ItoT" THEN cma_I(c_B) ELSE cma_T(c_N)))
    /\ c_A' = IF c_dir = "ItoT" THEN ItoT_A(cma_I(c_B), c_lam') ELSE <<>>
    /\ c_dist' = IF ~c_XD THEN <<>>
                 ELSE IF c_dir = "ItoT" THEN cma_zeros(c_B, c_N) ELSE cma_zeros(c_N, c_B)
    /\ c_i' = 0
    /\ c_left' = IF c_XD THEN chunk_starts(c_N, c_chunk) ELSE {}
    /\ c_log' = <<>>
    /\ c_grad' = {}
    /\ c_pc' = IF c_XD THEN "loop" ELSE "full"
    /\ UNCHANGED <<c_dir, c_XD, c_B, c_N, c_chunk>>

\* one pass of for i in range(0, N, chunk_size), lines 431-440 and 464-482
CChunk ==
    /\ UNCHANGED othersC
    /\ c_pc = "loop"
    /\ c_i < c_N
    /\ \E T_chunk \in {chunk_of(c_N, c_i, c_chunk)} :
          /\ c_dist' = chunk_write(c_dir, c_dist, c_i, cma_I(c_B), c_A, T_chunk, c_lam)
          /\ c_log' = c_log \o range(c_i, c_i + Len(T_chunk))
    /\ c_grad' = IF c_dir = "ItoT" THEN ItoT_chunk_grad(c_grad)
                 ELSE TtoI_chunk_grad(c_grad)
    /\ c_left' = c_left \ {c_i}
    /\ c_i' = c_i + c_chunk
    /\ UNCHANGED <<c_pc, c_dir, c_XD, c_B, c_N, c_chunk, c_A, c_lam>>

\* the same pass for any i that range(0, N, chunk_size) has yet to give
CChunkAny ==
    /\ UNCHANGED othersC
    /\ c_pc = "loop"
    /\ \E i \in c_left :
       \E T_chunk \in {chunk_of(c_N, i, c_chunk)} :
          /\ c_dist' = chunk_write(c_dir, c_dist, i, cma_I(c_B), c_A, T_chunk, c_lam)
          /\ c_log' = c_log \o range(i, i + Len(T_chunk))
          /\ c_left' = c_left \ {i}
          /\ c_i' = i + c_chunk
    /\ c_grad' = IF c_dir = "ItoT" THEN ItoT_chunk_grad(c_grad)
                 ELSE TtoI_chunk_grad(c_grad)
    /\ UNCHANGED <<c_pc, c_dir, c_XD, c_B, c_N, c_chunk, c_A, c_lam>>

\* the loop is over: lines 484 and 450/501
CReturn ==
    /\ UNCHANGED othersC
    /\ c_pc = "loop"
    /\ c_left = {}
    /\ c_dist' = IF c_dir = "ItoT" THEN c_dist ELSE cma_t(c_dist)
    /\ c_pc' = "done"
    /\ UNCHANGED <<c_dir, c_XD, c_B, c_N, c_chunk, c_i, c_A, c_lam, c_left, c_log, c_grad>>

\* the unchunked branch, lines 441-448 and 486-499
CFull ==
    /\ UNCHANGED othersC
    /\ c_pc = "full"
    /\ c_dist' = IF c_dir = "ItoT"
                 THEN ItoT_full(cma_I(c_B), c_A, cma_T(c_N), cma_rho)
                 ELSE TtoI_full(cma_I(c_B), cma_T(c_N), c_lam, cma_rho)
    /\ c_grad' = full_grad(c_dir)
    /\ c_pc' = "done"
    /\ UNCHANGED <<c_dir, c_XD, c_B, c_N, c_chunk, c_i, c_A, c_lam, c_left, c_log>>

NextC == CStart \/ CChunk \/ CReturn \/ CFull

InitCMA == InitC /\ IdleM /\ IdleT /\ IdleF /\ IdleZ /\ IdleNew

SpecCMA == InitCMA /\ [][NextC]_vars

\* the same calls with the passes of the loop taken in any order
NextCAny == CStart \/ CChunkAny \/ CReturn \/ CFull

SpecCMAOrder == InitCMA /\ [][NextCAny]_vars

\* what the unchunked branch returns on the inputs of this call
Unchunked ==
    IF c_dir = "ItoT"
    THEN ItoT_full(cma_I(c_B), ItoT_A(cma_I(c_B), cma_lam(cma_reg(cma_I(c_B)))),
                   cma_T(c_N), cma_rho)
    ELSE TtoI_full(cma_I(c_B), cma_T(c_N), cma_lam(cma_reg(cma_T(c_N))), cma_rho)

\* C9: when N is a multiple of the chunk size, the chunked computation gives,
\* in both directions and for every image b and class n, the distance the
\* unchunked computation gives on the same features and parameters.
C9_ChunkedEqualsUnchunked ==
    (c_pc = "done" /\ c_XD /\ c_N % c_chunk = 0) =>
        /\ Len(c_dist) = c_B
        /\ \A b \in 1..c_B :
              /\ Len(c_dist[b]) = c_N
              /\ \A n \in 1..c_N : c_dist[b][n] = Unchunked[b][n]

\* a chunked text-to-image call that went through two chunks of several classes
C9_Witness ==
    /\ c_pc = "done"
    /\ c_XD
    /\ c_dir = "TtoI"
    /\ c_B = MaxB
    /\ c_chunk > 1
    /\ c_N = c_chunk + c_chunk
    /\ c_dist[c_B][c_N] # c_dist[c_B][1]

(***************************************************************************)
(* SpecFreeze: CustomCLIP.__init__ on a loaded clip_model, then the        *)
(* freezing loop and the double check of DAM.build_model.  A parameter is  *)
(* an object <<owner, name>>; one object may be registered under several   *)
(* names.  A name is the sequence of its pieces, cut so that the three     *)
(* markers of line 744 are pieces of their own.                            *)
(***************************************************************************)
Entry(name, param) == [name |-> name, param |-> param]

\* the entries of a submodule, registered under a prefix
Prefixed(prefix, entries) ==
    [i \in 1..Len(entries) |-> Entry(prefix \o entries[i].name, entries[i].param)]

\* the parameters of clip_model, by their names inside it
ClipNames ==
    <<"positional_embedding", "text_projection", "logit_scale",
      "visual.class_embedding", "visual.positional_embedding", "visual.proj",
      "visual.conv1.weight", "visual.ln_pre.weight", "visual.transformer.resblocks",
      "visual.ln_post.weight", "transformer.resblocks", "token_embedding.weight",
      "ln_final.weight">>

clip_param(name) == <<"clip_model", name>>

ClipParams == {clip_param(ClipNames[i]) : i \in 1..Len(ClipNames)}

\* clip_model.named_parameters()
clip_model_entries ==
    [i \in 1..Len(ClipNames) |-> Entry(<<ClipNames[i]>>, clip_param(ClipNames[i]))]

\* an attribute of a wrapper that is a parameter or module of clip_model
Alias(local, name) == Entry(<<local>>, clip_param(name))

\* a parameter made by nn.Parameter / nn.Linear in a constructor
Made(owner, local) == Entry(<<local>>, <<owner, local>>)

\* nn.ParameterList of one nn.Parameter per layer but the first
ParamList(owner, local) ==
    [i \in 1..(NumLayers - 1) |-> Entry(<<local, ToString(i - 1)>>, <<owner \o local, i - 1>>)]

\* TopoPromptLearner.__init__
topo_prompt_learner_entries ==
    <<Made("topo_prompt_learner", "e2e_scal"), Made("topo_prompt_learner", "e2a_scal")>>

\* PromptLearner.__init__: its own parameter, then its submodules in the
\* order they were assigned, self.clip_model last
prompt_learner_entries ==
    <<Made("prompt_learner", "p_input")>>
        \o ParamList("prompt_learner.", "p_uni.")
        \o <<Made("prompt_learner", "p_ins_projector.weight"),
             Made("prompt_learner", "p_ins_projector.bias")>>
        \o Prefixed(<<"clip_model.">>, clip_model_entries)

\* VisionPromptLearner.__init__
vision_prompt_learner_entries ==
    <<Alias("class_embedding", "visual.class_embedding"),
      Alias("positional_embedding", "visual.positional_embedding"),
      Made("vision_prompt_learner", "p_input"),
      Alias("conv1.weight", "visual.conv1.weight")>>
        \o ParamList("vision_prompt_learner.", "p_visual.")

\* VisionEncoder.__init__
image_encoder_entries ==
    <<Alias("proj", "visual.proj"), Alias("ln_pre.weight", "visual.ln_pre.weight"),
      Alias("transformer", "visual.transformer.resblocks"),
      Alias("ln_post.weight", "visual.ln_post.weight")>>

\* TextEncoder.__init__
text_encoder_entries ==
    <<Alias("positional_embedding", "positional_embedding"),
      Alias("text_projection", "text_projection"),
      Alias("transformer", "transformer.resblocks"),
      Alias("ln_final.weight", "ln_final.weight")>>

\* TextEncoderZS.__init__
text_encoder_zs_entries ==
    text_encoder_entries \o <<Alias("token_embedding.weight", "token_embedding.weight")>>

\* VisionEncoderZS.__init__
image_encoder_zs_entries ==
    <<Alias("proj", "visual.proj"),
      Alias("class_embedding", "visual.class_embedding"),
      Alias("positional_embedding", "visual.positional_embedding"),
      Alias("ln_pre.weight", "visual.ln_pre.weight"),
      Alias("transformer", "visual.transformer.resblocks"),
      Alias("ln_post.weight", "visual.ln_post.weight"),
      Alias("conv1.weight", "visual.conv1.weight")>>

\* CrossModalAlignment.__init__
cma_entries ==
    <<Made("cma", "r"), Made("cma", "alp"), Made("cma", "scale"),
      Made("cma", "logits_scales")>>

\* SameModalAlignment.__init__ and text_xd_SameModalAlignment.__init__
sma_entries(owner) == <<Made(owner, "alpha"), Made(owner, "beta")>>

\* every (name, parameter) of CustomCLIP after __init__, in the order of
\* registration: its own parameter first, then module by module
custom_clip_entries ==
    <<Alias("logit_scale", "logit_scale")>>
        \o Prefixed(<<"topo_", "prompt_learner", ".">>, topo_prompt_learner_entries)
        \o Prefixed(<<"prompt_learner", ".">>, prompt_learner_entries)
        \o Prefixed(<<"vision_", "prompt_learner", ".">>, vision_prompt_learner_entries)
        \o Prefixed(<<"image_encoder.">>, image_encoder_entries)
        \o Prefixed(<<"text_encoder.">>, text_encoder_entries)
        \o Prefixed(<<"text_encoder_zs.">>, text_encoder_zs_entries)
        \o Prefixed(<<"image_encoder_zs.">>, image_encoder_zs_entries)
        \o Prefixed(<<"model.">>, clip_model_entries)
        \o Prefixed(<<"cma", ".">>, cma_entries)
        \o Prefixed(<<"img_", "sma", ".">>, sma_entries("img_sma"))
        \o Prefixed(<<"text_", "sma", ".">>, sma_entries("text_sma"))

\* the parameters the constructors make
MadeParams ==
    {custom_clip_entries[i].param : i \in 1..Len(custom_clip_entries)} \ ClipParams

\* named_parameters(): every parameter once, under the first of its names
RECURSIVE first_names(_, _)
first_names(entries, seen) ==
    IF entries = <<>> THEN <<>>
    ELSE IF Head(entries).param \in seen THEN first_names(Tail(entries), seen)
         ELSE <<Head(entries)>>
                 \o first_names(Tail(entries), seen \cup {Head(entries).param})

named_parameters == first_names(custom_clip_entries, {})

\* marker in name
contains(marker, name) == \E i \in 1..Len(name) : name[i] = marker

\* line 744: the loop leaves the parameter alone
kept_by_name(name) ==
    contains("prompt_learner", name) \/ contains("cma", name) \/ contains("sma", name)

\* requires_grad of the parameters of clip_model as loaded: all enabled as
\* torch makes them, or some or all disabled by whoever loaded it
LoadedGrads ==
    {[p \in ClipParams |-> TRUE], [p \in ClipParams |-> FALSE]}
        \cup {[p \in ClipParams |-> p # q] : q \in ClipParams}

InitZ ==
    /\ z_pc = "loaded"
    /\ z_loaded \in LoadedGrads
    /\ z_grad = z_loaded
    /\ z_todo = <<>>
    /\ z_enabled = {}

\* line 586: for p in clip_model.parameters()
ZEnter ==
    /\ UNCHANGED othersZ
    /\ z_pc = "loaded"
    /\ z_todo' = [i \in 1..Len(ClipNames) |-> clip_param(ClipNames[i])]
    /\ z_pc' = "freezing"
    /\ UNCHANGED <<z_loaded, z_grad, z_enabled>>

\* the parameter is passed over
ZFreezeStep_skip ==
    /\ UNCHANGED othersZ
    /\ z_pc = "freezing"
    /\ z_todo # <<>>
    /\ z_todo' = Tail(z_todo)
    /\ UNCHANGED <<z_pc, z_loaded, z_grad, z_enabled>>

\* line 587: p.requires_grad = False
ZFreezeStep ==
    /\ UNCHANGED othersZ
    /\ z_pc = "freezing"
    /\ z_todo # <<>>
    /\ z_grad' = [z_grad EXCEPT ![Head(z_todo)] = FALSE]
    /\ z_todo' = Tail(z_todo)
    /\ UNCHANGED <<z_pc, z_loaded, z_enabled>>

\* lines 603-621: the submodules are built; what they make requires grad
ZBuild ==
    /\ UNCHANGED othersZ
    /\ z_pc = "freezing"
    /\ z_todo = <<>>
    /\ z_grad' = [p \in ClipParams \cup MadeParams |->
                     IF p \in ClipParams THEN z_grad[p] ELSE TRUE]
    /\ z_pc' = "built"
    /\ UNCHANGED <<z_loaded, z_todo, z_enabled>>

\* line 743: for name, param in self.model.named_parameters()
ZLoopEnter ==
    /\ UNCHANGED othersZ
    /\ z_pc = "built"
    /\ z_todo' = named_parameters
    /\ z_pc' = "loop"
    /\ UNCHANGED <<z_loaded, z_grad, z_enabled>>

\* lines 744-745
ZLoopStep ==
    /\ UNCHANGED othersZ
    /\ z_pc = "loop"
    /\ z_todo # <<>>
    /\ z_grad' = IF kept_by_name(Head(z_todo).name) THEN z_grad
                 ELSE [z_grad EXCEPT ![Head(z_todo).param] = FALSE]
    /\ z_todo' = Tail(z_todo)
    /\ UNCHANGED <<z_pc, z_loaded, z_enabled>>

\* lines 748-751: the double check
ZCheck ==
    /\ UNCHANGED othersZ
    /\ z_pc = "loop"
    /\ z_todo = <<>>
    /\ z_enabled' = {named_parameters[i].name :
                        i \in {k \in 1..Len(named_parameters) :
                                  z_grad[named_parameters[k].param]}}
    /\ z_pc' = "ready"
    /\ UNCHANGED <<z_loaded, z_grad, z_todo>>

NextZ == ZEnter \/ ZFreezeStep \/ ZBuild \/ ZLoopEnter \/ ZLoopStep \/ ZCheck

InitFreeze == InitZ /\ IdleM /\ IdleT /\ IdleF /\ IdleC /\ IdleNew

SpecFreeze == InitFreeze /\ [][NextZ]_vars

\* the parameters the claim allows to stay enabled: prompt tensors, the
\* instance-prompt projector, the attention-bias scalars, and the parameters
\* of cma, img_sma and text_sma
AddedOwners ==
    {"prompt_learner", "prompt_learner.p_uni.", "vision_prompt_learner",
     "vision_prompt_learner.p_visual.", "topo_prompt_learner", "cma", "img_sma",
     "text_sma"}

\* C10: after construction and the freezing loop every parameter of
\* clip_model has gradients disabled, under whichever of its names it is
\* looked at, and every parameter with gradients enabled is an added one.
C10_BackboneFrozen ==
    z_pc = "ready" =>
        /\ \A i \in 1..Len(custom_clip_entries) :
              custom_clip_entries[i].param \in ClipParams
                  => ~z_grad[custom_clip_entries[i].param]
        /\ \A p \in DOMAIN z_grad : z_grad[p] => p[1] \in AddedOwners
        /\ \A name \in z_enabled : kept_by_name(name)

\* clip_model came with every parameter enabled; all but logit_scale are
\* enumerated below prompt_learner.clip_model, where the loop keeps its hands
\* off, and added parameters are still enabled
C10_Witness ==
    /\ z_pc = "ready"
    /\ \A p \in ClipParams : z_loaded[p]
    /\ \E i \in 1..Len(named_parameters) :
          /\ named_parameters[i].param \in ClipParams
          /\ contains("prompt_learner", named_parameters[i].name)
    /\ \E name \in z_enabled : contains("sma", name)
    /\ \E p \in MadeParams : z_grad[p]

(***************************************************************************)
(* The image path: VisionPromptLearner.forward builds the sequence of one  *)
(* batch, VisionEncoder.forward runs it through the layers and splices the *)
(* global prompts in place.  A tensor is a name of a storage in v_heap; an *)
(* operation that returns a new tensor allocates a storage, a view keeps   *)
(* the storage of its operand and an in-place write changes the storage    *)
(* its target names.  Rows are terms: equal terms are equal values.        *)
(***************************************************************************)
MaxVpro == 2     \* largest cfg.TRAINER.DAM.N_VPRO
MaxPatch == 2    \* most patch tokens of one image
MaxSteps == 1    \* optimizer steps taken between forward passes

\* line 104, len(clip_model.visual.transformer.resblocks)
VLayers == NumLayers

\* lines 106-112: the parameters, n_vpro rows each, after ver optimizer steps
p_visual_rows(i, n_vpro, ver) == [r \in 1..n_vpro |-> <<"p_visual", i, r, ver>>]
p_input_rows(n_vpro, ver) == [r \in 1..n_vpro |-> <<"p_input", 0, r, ver>>]

\* the storages of the parameters of vision_prompt_learner
param_heap(n_vpro, ver) ==
    [n \in {<<"p_input", 0>>} \cup {<<"p_visual", i>> : i \in 0..(VLayers - 2)} |->
        IF n[1] = "p_input" THEN p_input_rows(n_vpro, ver)
        ELSE p_visual_rows(n[2], n_vpro, ver)]

\* a heap with one more storage
alloc(heap, name, content) ==
    [n \in DOMAIN heap \cup {name} |-> IF n = name THEN content ELSE heap[n]]

\* a heap without the storages of tensors no name refers to any longer
release(heap, keep) ==
    [n \in {k \in DOMAIN heap : k[1] # "x" \/ k = keep} |-> heap[n]]

\* lines 118-123: class token and patch tokens with their positions
embed(B, np) == [b \in 1..B |-> [pos \in 1..(1 + np) |-> <<"embed", b, pos - 1>>]]

\* lines 126-127: expand is a view of p_input, torch.cat copies both
cat_p_input(x, p_input) == [b \in 1..Len(x) |-> x[b] \o p_input]

\* line 81: ln_pre works on every row by itself
ln_pre(x) == [b \in 1..Len(x) |-> [pos \in 1..Len(x[b]) |-> <<"ln_pre", x[b][pos]>>]]

\* line 88: a layer mixes the rows of one sequence and returns a new tensor
layer(i, x) == [b \in 1..Len(x) |-> [pos \in 1..Len(x[b]) |-> <<"layer", i, pos - 1, x[b]>>]]

\* the first row a slice [-n:] of S rows selects: -0 is 0, the whole tensor
slice_start(n, S) == IF n = 0 THEN 0 ELSE IF S - n < 0 THEN 0 ELSE S - n

\* line 87, whether the copy fits: as many rows as the slice has, or one
splice_ok(n_vpro, S) == n_vpro = S - slice_start(n_vpro, S) \/ n_vpro = 1

\* line 87 with the parameter as target: p_visual[layer_idx-1][:] = x[-n:]
splice_into_param(heap, x, p, n_vpro) ==
    [heap EXCEPT ![p] = [r \in 1..n_vpro |->
        heap[x][1][slice_start(n_vpro, Len(heap[x][1])) + r]]]

\* line 87: the rows of p, the same for every batch element (unsqueeze and
\* expand are views, only read), are written into the storage behind x
splice(heap, x, p, n_vpro) ==
    [heap EXCEPT ![x] = [b \in 1..Len(heap[x]) |->
        [pos \in 1..Len(heap[x][b]) |->
            IF pos - 1 >= slice_start(n_vpro, Len(heap[x][b]))
            THEN heap[p][IF n_vpro = 1 THEN 1
                         ELSE pos - slice_start(n_vpro, Len(heap[x][b]))]
            ELSE heap[x][b][pos]]]]

InitV ==
    /\ v_pc = "start"
    /\ v_B \in 1..MaxB
    /\ v_np \in 1..MaxPatch
    /\ v_nvpro \in 0..MaxVpro
    /\ v_ver = 0
    /\ v_heap = param_heap(v_nvpro, 0)
    /\ v_x = <<>>
    /\ v_layer = 0
    /\ v_fed = <<>>
    /\ v_out = <<>>

\* lines 117-130, VisionPromptLearner.forward
VPrompt ==
    /\ UNCHANGED othersV
    /\ v_pc = "start"
    /\ v_heap' = alloc(v_heap, <<"x", 0>>,
                       cat_p_input(embed(v_B, v_np), v_heap[<<"p_input", 0>>]))
    /\ v_x' = <<"x", 0>>
    /\ v_pc' = "prompted"
    /\ UNCHANGED <<v_B, v_np, v_nvpro, v_ver, v_layer, v_fed, v_out>>

\* lines 81-82: ln_pre returns a new tensor, permute a view of it
VPre ==
    /\ UNCHANGED othersV
    /\ v_pc = "prompted"
    /\ v_heap' = release(alloc(v_heap, <<"x", 1>>, ln_pre(v_heap[v_x])), <<"x", 1>>)
    /\ v_x' = <<"x", 1>>
    /\ v_pc' = "loop"
    /\ v_layer' = 0
    /\ UNCHANGED <<v_B, v_np, v_nvpro, v_ver, v_fed, v_out>>

\* lines 84-88, one iteration of the loop: the splice, then the layer
VLayerStep ==
    /\ UNCHANGED othersV
    /\ v_pc = "loop"
    /\ v_layer < VLayers
    /\ \E ok \in {v_layer = 0 \/ splice_ok(v_nvpro, Len(v_heap[v_x][1]))} :
       \E h \in {IF v_layer > 0 /\ ok
                 THEN splice(v_heap, v_x, <<"p_visual", v_layer - 1>>, v_nvpro)
                 ELSE v_heap} :
          IF ok
          THEN /\ v_fed' = Append(v_fed, h[v_x])
               /\ v_out' = Append(v_out, layer(v_layer, h[v_x]))
               /\ v_heap' = release(alloc(h, <<"x", v_layer + 2>>,
                                          layer(v_layer, h[v_x])),
                                    <<"x", v_layer + 2>>)
               /\ v_x' = <<"x", v_layer + 2>>
               /\ v_layer' = v_layer + 1
               /\ v_pc' = "loop"
          ELSE /\ v_pc' = "raised"
               /\ UNCHANGED <<v_heap, v_x, v_layer, v_fed, v_out>>
    /\ UNCHANGED <<v_B, v_np, v_nvpro, v_ver>>

\* lines 90-94: the class token of every image is read out and projected
VPost ==
    /\ UNCHANGED othersV
    /\ v_pc = "loop"
    /\ v_layer = VLayers
    /\ v_pc' = "done"
    /\ v_heap' = release(v_heap, <<>>)
    /\ v_x' = <<>>
    /\ UNCHANGED <<v_B, v_np, v_nvpro, v_ver, v_layer, v_fed, v_out>>

\* lines 765-770: the optimizer changes the parameters between two passes,
\* and the next batch comes in
VOptimStep ==
    /\ UNCHANGED othersV
    /\ v_pc = "done"
    /\ v_ver < MaxSteps
    /\ v_ver' = v_ver + 1
    /\ v_heap' = param_heap(v_nvpro, v_ver + 1)
    /\ v_B' \in 1..MaxB
    /\ v_pc' = "start"
    /\ v_layer' = 0
    /\ v_fed' = <<>>
    /\ v_out' = <<>>
    /\ UNCHANGED <<v_np, v_nvpro, v_x>>

NextV == VPrompt \/ VPre \/ VLayerStep \/ VPost \/ VOptimStep

InitVision == InitV /\ IdleOld /\ IdleE /\ IdleA /\ IdleS

SpecVision == InitVision /\ [][NextV]_vars

\* the storages of the prompt parameters hold what the optimizer left there
params_intact ==
    \A n \in DOMAIN param_heap(v_nvpro, v_ver) :
        /\ n \in DOMAIN v_heap
        /\ v_heap[n] = param_heap(v_nvpro, v_ver)[n]

spliced_as_stated ==
    \A i \in 1..Len(v_fed) :
        /\ Len(v_fed[i]) = v_B
        /\ \A b \in 1..v_B : Len(v_fed[i][b]) = 1 + v_np + v_nvpro
        /\ i = 1 => v_fed[1] = ln_pre(cat_p_input(embed(v_B, v_np),
                                                    p_input_rows(v_nvpro, v_ver)))
        /\ i > 1 => \A b \in 1..v_B : \A pos \in 1..(1 + v_np + v_nvpro) :
                      v_fed[i][b][pos] =
                          IF pos > 1 + v_np
                          THEN p_visual_rows(i - 2, v_nvpro, v_ver)[pos - (1 + v_np)]
                          ELSE v_out[i - 1][b][pos]

\* C13: the first-layer input prompt is appended after the class token and
\* the patch tokens, layer 0 runs without a splice, and every later layer i
\* is given the output of layer i-1 with exactly its last n_vpro rows
\* replaced by global prompt i-1, the same rows for every image; the length
\* of the sequence never changes, the class token stays at position 0, and
\* the encoder gets through all its layers.
C13_LastRowsSpliced ==
    v_pc # "off" =>
        /\ v_pc # "raised"
        /\ spliced_as_stated
        /\ v_pc = "done" => Len(v_fed) = VLayers

\* the same statement for prompts of at least one row
C13_WithPrompts == v_nvpro >= 1 => C13_LastRowsSpliced

(***************************************************************************)
(* The text path, row by row: PromptLearner.forward builds p_ori and p_ins *)
(* (lines 276-293), TextEncoder.forward regroups p_ins and splices the     *)
(* prompts of every layer into the sequence.  A row is a term; x is kept   *)
(* as the layers see it, x[pos+1][k+1] for position pos of prompt k.       *)
(***************************************************************************)
MaxSuffix == 2   \* most tokens of a prompt after the placeholders

\* self.text_features_ft, line 638: layer l, class c, description j
text_features_ft(C, n) ==
    [l \in 1..NumLayers |-> [c \in 1..C |-> [j \in 1..n |-> <<"zs", l - 1, c - 1, j - 1>>]]]

\* line 289: feat + self.p_ins_projector(feat), row by row
p_ins_project(feat, ver) == [m \in 1..Len(feat) |-> <<"proj", feat[m], ver>>]

\* lines 284-291: p_ins of the prompt learner, (L-1, c*n) rows
prompt_learner_p_ins(feats, C, n, ver) ==
    [idx \in 1..(NumLayers - 1) |-> p_ins_project(Flatten(feats[idx], <<C, n>>), ver)]

\* lines 276-281: p_ori, (P, 1 + n_tpro + n_set + n_suf) rows
prompt_learner_p_ori(P, n_set, n_suf, ver) ==
    [k \in 1..P |->
        <<<<"tok", k - 1, 0>>>>
        \o [r \in 1..(NTpro + n_set) |-> <<"p_input", 0, r - 1, ver>>]
        \o [s \in 1..n_suf |-> <<"tok", k - 1, NTpro + n_set + s>>]]

\* self.p_uni[l], line 231: n_tpro rows
p_uni_rows(l, ver) == [r \in 1..NTpro |-> <<"p_uni", l, r - 1, ver>>]

\* attn[:, layer_idx] of the stacked attention biases, (P, L, n_tkn, n_tkn)
attn_layer(P, layer_idx) == [k \in 1..P |-> <<"attn", k - 1, layer_idx>>]

\* x.permute(1, 0, 2) and p.permute(0, 2, 1, 3): the first two (of the last
\* three) dimensions change places
swap01(x) == [a \in 1..Len(x[1]) |-> [b \in 1..Len(x) |-> x[b][a]]]

\* repeat(n_set, 1, 1) in place of lines 184-185: the rows of the classes
\* one after the other, n_set times over
expand_sets_tiled(p, n_set) == Concat([r \in 1..n_set |-> p])

\* lines 184-185: unsqueeze(2).expand(-1, -1, n_set, -1, -1), flatten(1, 2)
expand_sets(p, n_set) == Concat([c \in 1..Len(p) |-> [r \in 1..n_set |-> p[c]]])

\* lines 178-187 for one layer of p_ins: (c) rows to (n_set, P) rows
regroup_p_ins(p, n_set, flag) ==
    LET r == Unflatten(p, 0, <<Len(p) \div n_set, n_set>>)
    IN  swap01(IF flag THEN r ELSE expand_sets(r, n_set))

\* line 188: the positional embedding is added to every row
add_positional(x) ==
    [k \in 1..Len(x) |-> [pos \in 1..Len(x[k]) |-> <<"add_pos", x[k][pos], pos - 1>>]]

\* the same with ctx_h in front of ctx_g
text_splice_swapped(x, n_set, p_uni, ctx_h) ==
    slice(x, 0, 1)
    \o ctx_h
    \o [r \in 1..NTpro |-> [k \in 1..Len(x[1]) |-> p_uni[r]]]
    \o slice(x, 1 + NTpro + n_set, Len(x))

\* lines 193-200: prefix, ctx_g, ctx_h and suffix, joined along dim 0
text_splice(x, n_set, p_uni, ctx_h) ==
    slice(x, 0, 1)
    \o [r \in 1..NTpro |-> [k \in 1..Len(x[1]) |-> p_uni[r]]]
    \o ctx_h
    \o slice(x, 1 + NTpro + n_set, Len(x))

\* lines 204 and 206: a layer mixes the rows of one prompt under its bias
text_layer(i, x, bias) ==
    [pos \in 1..Len(x) |-> [k \in 1..Len(x[1]) |->
        <<"layer", i, pos - 1, [q \in 1..Len(x) |-> x[q][k]], bias[k]>>]]

\* the number of prompts built by lines 253-270
n_prompts(C, n_set, flag) == IF flag THEN C ELSE C * n_set

InitE ==
    /\ e_pc = "start"
    /\ e_flag \in BOOLEAN
    /\ e_C \in 1..MaxCls
    /\ e_nset \in 1..MaxNSet
    /\ e_nsuf \in 1..MaxSuffix
    /\ e_ver = 0
    /\ e_pori = <<>> /\ e_pins = <<>> /\ e_layer = 0
    /\ e_fed = <<>> /\ e_bias = <<>> /\ e_out = <<>>

\* lines 276-293, the end of PromptLearner.forward
EPrompt ==
    /\ UNCHANGED othersE
    /\ e_pc = "start"
    /\ e_pori' = prompt_learner_p_ori(n_prompts(e_C, e_nset, e_flag), e_nset, e_nsuf, e_ver)
    /\ e_pins' = prompt_learner_p_ins(text_features_ft(e_C, e_nset), e_C, e_nset, e_ver)
    /\ e_pc' = "prompted"
    /\ UNCHANGED <<e_flag, e_C, e_nset, e_nsuf, e_ver, e_layer, e_fed, e_bias, e_out>>

\* lines 178-189, TextEncoder.forward up to the loop
EPrepare ==
    /\ UNCHANGED othersE
    /\ e_pc = "prompted"
    /\ e_pins' = [l \in 1..Len(e_pins) |-> regroup_p_ins(e_pins[l], e_nset, e_flag)]
    /\ e_pori' = swap01(add_positional(e_pori))
    /\ e_layer' = 0
    /\ e_pc' = "loop"
    /\ UNCHANGED <<e_flag, e_C, e_nset, e_nsuf, e_ver, e_fed, e_bias, e_out>>

\* lines 191-206, one iteration of the loop; torch.cat wants as many prompts
\* in ctx_h as in x
ELayerStep ==
    /\ UNCHANGED othersE
    /\ e_pc = "loop"
    /\ e_layer < NumLayers
    /\ \E ok \in {e_layer = 0 \/ Len(e_pins[e_layer][1]) = Len(e_pori[1])} :
       \E x \in {IF e_layer > 0 /\ ok
                 THEN text_splice(e_pori, e_nset, p_uni_rows(e_layer - 1, e_ver),
                                  e_pins[e_layer])
                 ELSE e_pori} :
       \E bias \in {attn_layer(Len(e_pori[1]), e_layer)} :
          IF ok
          THEN /\ e_fed' = Append(e_fed, x)
               /\ e_bias' = Append(e_bias, bias)
               /\ e_out' = Append(e_out, text_layer(e_layer, x, bias))
               /\ e_pori' = text_layer(e_layer, x, bias)
               /\ e_layer' = e_layer + 1
               /\ e_pc' = "loop"
          ELSE /\ e_pc' = "raised"
               /\ UNCHANGED <<e_pori, e_layer, e_fed, e_bias, e_out>>
    /\ UNCHANGED <<e_flag, e_C, e_nset, e_nsuf, e_ver, e_pins>>

\* lines 210-212: ln_final and the projection of the end-of-text row
EPost ==
    /\ UNCHANGED othersE
    /\ e_pc = "loop"
    /\ e_layer = NumLayers
    /\ e_pc' = "done"
    /\ UNCHANGED <<e_flag, e_C, e_nset, e_nsuf, e_ver, e_pori, e_pins, e_layer,
                   e_fed, e_bias, e_out>>

\* lines 765-770: the optimizer changes the parameters between two passes;
\* the next call may be in the other mode
EOptimStep ==
    /\ UNCHANGED othersE
    /\ e_pc = "done"
    /\ e_ver < MaxSteps
    /\ e_ver' = e_ver + 1
    /\ e_flag' \in BOOLEAN
    /\ e_pc' = "start"
    /\ e_pori' = <<>> /\ e_pins' = <<>> /\ e_layer' = 0
    /\ e_fed' = <<>> /\ e_bias' = <<>> /\ e_out' = <<>>
    /\ UNCHANGED <<e_C, e_nset, e_nsuf>>

NextE == EPrompt \/ EPrepare \/ ELayerStep \/ EPost \/ EOptimStep

InitText == InitE /\ IdleOld /\ IdleV /\ IdleA /\ IdleS

SpecText == InitText /\ [][NextE]_vars

\* C12: every layer i with 0 < i < L is given position 0 as layer i-1
\* returned it, then the n_tpro rows of global prompt i-1, then the n_set
\* rows of instance prompt i-1, then the positions from 1 + n_tpro + n_set on
\* as layer i-1 returned them; the sequence is as long at every layer; and
\* every layer i from 0 to L-1 runs with the attention bias of layer i.
C12_LayerInput ==
    e_pc \in {"loop", "done", "raised"} =>
        /\ e_pc # "raised"
        /\ e_pc = "done" => Len(e_fed) = NumLayers
        /\ \A i \in 1..Len(e_fed) :
              /\ Len(e_fed[i]) = 1 + NTpro + e_nset + e_nsuf
              /\ e_bias[i] = [k \in 1..n_prompts(e_C, e_nset, e_flag) |-> <<"attn", k - 1, i - 1>>]
              /\ i > 1 =>
                    e_fed[i] =
                        [pos \in 1..(1 + NTpro + e_nset + e_nsuf) |->
                            IF pos = 1 \/ pos > 1 + NTpro + e_nset THEN e_out[i - 1][pos]
                            ELSE IF pos <= 1 + NTpro
                            THEN [k \in 1..n_prompts(e_C, e_nset, e_flag) |->
                                     <<"p_uni", i - 2, pos - 2, e_ver>>]
                            ELSE e_pins[i - 1][pos - 1 - NTpro]]

\* a pass through all layers whose prompts have tokens after the
\* placeholders, so that prefix, both prompts and suffix all take part
C12_Witness ==
    /\ e_pc = "done"
    /\ Len(e_fed) >= 2
    /\ e_nsuf >= 1
    /\ e_nset >= 2
    /\ e_fed[2][2][1] = <<"p_uni", 0, 0, e_ver>>
    /\ e_fed[2][1 + NTpro + e_nset + 1] = e_out[1][1 + NTpro + e_nset + 1]

\* the class whose prompt sequence k is (both counted from 0)
class_of(k, n_set, flag) == IF flag THEN k ELSE k \div n_set

\* C15: the instance prompt spliced into prompt sequence k at a layer i > 0
\* is, in the order of the structures, the projected zero-shot features of
\* layer i-1 of all n_set structures of the class of that sequence: class k
\* in training, class k div n_set in evaluation.
C15_OwnClassRows ==
    e_pc \in {"loop", "done"} =>
        \A i \in 2..Len(e_fed) :
            \A k \in 1..n_prompts(e_C, e_nset, e_flag) :
                [j \in 1..e_nset |-> e_fed[i][1 + NTpro + j][k]]
                    = [j \in 1..e_nset |->
                         <<"proj", <<"zs", i - 2, class_of(k - 1, e_nset, e_flag), j - 1>>,
                           e_ver>>]

\* an evaluation pass over two classes of two structures each: sequences 0
\* and 1 belong to class 0, sequences 2 and 3 to class 1
C15_Witness ==
    /\ e_pc = "done"
    /\ ~e_flag
    /\ e_C >= 2
    /\ e_nset >= 2
    /\ Len(e_fed) >= 2
    /\ e_fed[2][1 + NTpro + 2][3] = <<"proj", <<"zs", 0, 1, 1>>, e_ver>>

(***************************************************************************)
(* TopoPromptLearner.align by itself, on token sequences of every kind:    *)
(* with no, one or several occurrences of seq2 in seq1, with seq2 longer   *)
(* than seq1, and with either of them empty.                               *)
(***************************************************************************)
MaxSeq1 == 4     \* longest seq1
MaxSeq2 == 3     \* longest seq2
MaxTok == 2      \* token ids 1..MaxTok

InitA ==
    /\ a_pc = "start"
    /\ a_seq1 \in SeqsUpTo(1..MaxTok, MaxSeq1)
    /\ a_seq2 \in SeqsUpTo(1..MaxTok, MaxSeq2)
    /\ a_ret = <<>>

\* lines 380-384, and list() of the callers (lines 348-356)
AAlign ==
    /\ UNCHANGED othersA
    /\ a_pc = "start"
    /\ a_ret' = align(a_seq1, a_seq2)
    /\ a_pc' = "done"
    /\ UNCHANGED <<a_seq1, a_seq2>>

NextA == AAlign

InitAlign == InitA /\ IdleOld /\ IdleV /\ IdleE /\ IdleS

SpecAlign == InitAlign /\ [][NextA]_vars

\* the indices at which seq2 matches seq1 exactly
match_at == {i \in 0..(Len(a_seq1) - Len(a_seq2)) :
                \A j \in 1..Len(a_seq2) : a_seq1[i + j] = a_seq2[j]}

\* C14: align returns the indices i, ..., i + len(seq2) - 1 for the smallest
\* i at which seq2 matches seq1 exactly, and nothing when there is no such i
\* (as when seq2 is longer than seq1); later matches add nothing.
C14_FirstMatch ==
    a_pc = "done" =>
        IF match_at = {} THEN a_ret = <<>>
        ELSE /\ Len(a_ret) = Len(a_seq2)
             /\ \A j \in 1..Len(a_ret) :
                   /\ a_ret[j] - (j - 1) \in match_at
                   /\ \A m \in match_at : a_ret[j] - (j - 1) <= m

\* seq2 matches at two places at least and the first one was returned
C14_Witness ==
    /\ a_pc = "done"
    /\ Cardinality(match_at) >= 2
    /\ a_seq2 # <<>>
    /\ a_ret # <<>>
    /\ a_ret[1] \in match_at

\* the entry of dist for image b and class n (from 1): dist of
\* get_rc_dist_TtoI is N x B inside the loop and transposed at the end
dist_entry(b, n) ==
    IF c_dir = "ItoT" \/ c_pc = "done" THEN c_dist[b][n] ELSE c_dist[n][b]

\* the distance of image b and class n computed from that class alone, the
\* images and the parameters of the call
dist_single(b, n) ==
    IF c_dir = "ItoT"
    THEN ItoT_full(cma_I(c_B), c_A, <<cma_T(c_N)[n]>>, cma_rho)[b][1]
    ELSE TtoI_full(cma_I(c_B), <<cma_T(c_N)[n]>>, c_lam, cma_rho)[b][1]

C17_NoGradient == (c_XD /\ c_pc = "done") => c_grad = {}

\* the same for the image-to-text direction alone
C17_ItoTNoGradient == (c_XD /\ c_pc = "done" /\ c_dir = "ItoT") => c_grad = {}

\* what the text-to-image distance can be differentiated in
C17_TtoIGradient ==
    (c_XD /\ c_pc = "done" /\ c_dir = "TtoI") => c_grad = {"img_f", "beta"}

(***************************************************************************)
(* SameModalAlignment on two batches.  A batch is a list of ids of pairs   *)
(* (prompted feature, zero-shot feature); the same id in two batches is    *)
(* the same pair of vectors.  Values are terms, as for the cross-modal     *)
(* distance.                                                               *)
(***************************************************************************)
MaxElem == 2     \* different pairs of features that may be in a batch

\* source[b] and target[b], each (1, d), of the pair with an id
sma_source(batch) == [b \in 1..Len(batch) |-> <<"source", batch[b]>>]
sma_target(batch) == [b \in 1..Len(batch) |-> <<"target", batch[b]>>]

\* lines 559-570, SameModalAlignment.get_align_dist: one W per batch element;
\* reg = S.shape[0] / S.shape[2] and lam = reg * alpha.exp() + 1e-6
sma_get_align_dist(S, T) ==
    [b \in 1..Len(S) |->
        matmul(matmul(regularized_inverse(matmul(permute(S[b]), S[b]),
                                          cma_lam(cma_reg(S))),
                      permute(S[b])),
               T[b])]

\* lines 573-581, SameModalAlignment.forward: W - (W - identity) * self.beta
sma_forward(S, T) ==
    [b \in 1..Len(S) |-> <<"sub", sma_get_align_dist(S, T)[b],
                           <<"mul", <<"sub", sma_get_align_dist(S, T)[b], <<"eye">>>>,
                             <<"beta">>>>>>]

Batches == UNION {[1..n -> 1..MaxElem] : n \in 1..MaxB}

InitS ==
    /\ s_pc = "start"
    /\ s_batch1 \in Batches
    /\ s_batch2 \in Batches
    /\ s_W1 = <<>>
    /\ s_W2 = <<>>

\* line 674 (or 681), self.img_sma(...) on the first batch
SCall1 ==
    /\ UNCHANGED othersS
    /\ s_pc = "start"
    /\ s_W1' = sma_forward(sma_source(s_batch1), sma_target(s_batch1))
    /\ s_pc' = "called1"
    /\ UNCHANGED <<s_batch1, s_batch2, s_W2>>

\* the same module called on the second batch, no optimizer step in between
SCall2 ==
    /\ UNCHANGED othersS
    /\ s_pc = "called1"
    /\ s_W2' = sma_forward(sma_source(s_batch2), sma_target(s_batch2))
    /\ s_pc' = "called2"
    /\ UNCHANGED <<s_batch1, s_batch2, s_W1>>

NextS == SCall1 \/ SCall2

InitSMA == InitS /\ IdleOld /\ IdleV /\ IdleE /\ IdleA

SpecSMA == InitSMA /\ [][NextS]_vars

\* C18: the W of a batch element depends on the source and target feature
\* of that element and on alpha and beta alone: the same pair of features
\* gets the same W whatever batch it is in, of whatever size, since the
\* ridge term lambda does not vary with the size of the batch.
C18_BatchIndependent ==
    s_pc = "called2" =>
        \A p \in 1..Len(s_batch1) : \A q \in 1..Len(s_batch2) :
            s_batch1[p] = s_batch2[q] => s_W1[p] = s_W2[q]

\* the same for two batches of one size: there W does not depend on which
\* other pairs are in the batch, nor on the place of the pair
C18_SameSizeIndependent ==
    (s_pc = "called2" /\ Len(s_batch1) = Len(s_batch2)) =>
        \A p \in 1..Len(s_batch1) : \A q \in 1..Len(s_batch2) :
            s_batch1[p] = s_batch2[q] => s_W1[p] = s_W2[q]

====
